---- MODULE Spec2Model ----
(***************************************************************************)
(* Model of the cyberspace-cli movement orchestrator: the local state      *)
(* file, the chain logs, the config file and the `move`, `spawn`,          *)
(* `chain use` and `config set` commands, together with the pure helpers   *)
(* they call (LCA height, toward-pathing, coordinate codec, event          *)
(* builder).                                                               *)
(*                                                                         *)
(* Axis values are 85-bit in the program; the model keeps the code's       *)
(* arithmetic and scales the width down to AXIS_BITS bits.  SHA-256 is     *)
(* modelled as an injective function: a digest is represented by its       *)
(* preimage.                                                               *)
(***************************************************************************)
EXTENDS Integers, Sequences, FiniteSets, TLC

\* ------------------------------------------------------------------ bounds
\* coords.py AXIS_BITS = 85, scaled down.
AXIS_BITS == 3
\* nostr_event.py sector_bits = 30, scaled down with the axis width.
SECTOR_BITS == 1
\* Largest number of hops appended in one run of the model.
MaxHops == 2
\* Axis width of the values the pure-function checks enumerate.
PureBits == 6
\* Largest value of the wall clock (time.time()) in the model.
MaxClock == 1
\* Largest --max-lca-height / config value the model's callers pass.
MaxHeightInput == 2
\* Proofs computed by one toward walk that is followed to its end.
MaxWalkHops == 4
\* Targets saved in the state file.
MaxTargets == 2
\* Heights, and subtree bases, of the Cantor roots computed as numbers.
MaxCantorHeight == 2
MaxCantorBase == 1
MaxTextLen == 4
AngleSteps == 4
DECIMAL_PREC == 3

AXIS_UNITS == 2 ^ AXIS_BITS
AXIS_MAX == AXIS_UNITS - 1
COORD_BITS == 1 + 3 * AXIS_BITS
HEX_LEN == (COORD_BITS + 3) \div 4
KIND == 3333

\* ------------------------------------------------------- integer helpers
Abs(n) == IF n < 0 THEN -n ELSE n

\* Max3 looking at the X axis only.
Max3_XOnly(a, b, c) == a

Max3(a, b, c) ==
    LET m == IF a >= b THEN a ELSE b
    IN  IF m >= c THEN m ELSE c

\* Python's >> and << on non-negative shift counts.
\* >> rounding up instead of down.
Shr_RoundUp(v, h) == (v + (2 ^ h) - 1) \div (2 ^ h)
Shr(v, h) == v \div (2 ^ h)
Shl(v, h) == v * (2 ^ h)

\* Python's ^ on non-negative ints.
RECURSIVE Xor(_, _)
Xor(a, b) ==
    IF a = 0 THEN b
    ELSE IF b = 0 THEN a
    ELSE (((a % 2) + (b % 2)) % 2) + 2 * Xor(a \div 2, b \div 2)

\* int.bit_length() for non-negative ints.
RECURSIVE BitLength(_)
BitLength(n) == IF n = 0 THEN 0 ELSE 1 + BitLength(n \div 2)

Bit(v, i) == Shr(v, i) % 2

\* ----------------------------------------------------------- movement.py
\* find_lca_height one level short.
find_lca_height_OneShort(v1, v2) == BitLength(Xor(v1, v2)) - 1

find_lca_height(v1, v2) ==
    IF v1 = v2 THEN 0 ELSE BitLength(Xor(v1, v2))

\* The Cantor root of the aligned subtree of v1 and v2.  The root is a
\* function of (base, height) alone; the model keeps that pair in place of
\* the number, whose size is exponential in the height.
compute_axis_cantor(v1, v2) ==
    LET h == find_lca_height(v1, v2)
        base == Shl(Shr(v1, h), h)
    IN  <<base, h>>

\* proof_hash = sha256_int_hex(pair(pair(cx, cy), cz)); pairing and the
\* digest are injective, so the hash is represented by the three roots.
compute_movement_proof_xyz(x1, y1, z1, x2, y2, z2) ==
    <<compute_axis_cantor(x1, x2), compute_axis_cantor(y1, y2), compute_axis_cantor(z1, z2)>>

\* ---------------------------------------- cantor.py, movement.py as numbers
DEFAULT_MAX_COMPUTE_HEIGHT == 20

cantor_pair(a, b) == LET s == a + b IN (s * (s + 1)) \div 2 + b

\* One round: [cantor_pair(values[i], values[i + 1]) for i in range(0, len(values), 2)]
PairAdjacent(values) ==
    [i \in 1..(Len(values) \div 2) |-> cantor_pair(values[2 * i - 1], values[2 * i])]

RECURSIVE PairRounds(_, _)
PairRounds(values, n) == IF n = 0 THEN values ELSE PairRounds(PairAdjacent(values), n - 1)

\* compute_subtree_cantor refusing only heights above the limit plus one.
compute_subtree_cantor_Lenient(base, height, max_compute_height) ==
    IF height < 0
    THEN [err |-> "height must be >= 0", value |-> 0, leaves |-> <<>>]
    ELSE IF height > max_compute_height + 1
    THEN [err |-> "exceeds max_compute_height", value |-> 0, leaves |-> <<>>]
    ELSE IF height = 0
    THEN [err |-> "ok", value |-> base, leaves |-> <<>>]
    ELSE LET values == [i \in 1..Shl(1, height) |-> base + i - 1]
         IN  [err |-> "ok", value |-> PairRounds(values, height)[1], leaves |-> values]

\* compute_subtree_cantor pairing each entry with itself.
compute_subtree_cantor_SelfPair(base, height, max_compute_height) ==
    IF height < 0
    THEN [err |-> "height must be >= 0", value |-> 0, leaves |-> <<>>]
    ELSE IF height > max_compute_height
    THEN [err |-> "exceeds max_compute_height", value |-> 0, leaves |-> <<>>]
    ELSE IF height = 0
    THEN [err |-> "ok", value |-> base, leaves |-> <<>>]
    ELSE LET values == [i \in 1..Shl(1, height) |-> base + i - 1]
             half == [i \in 1..Shl(1, height - 1) |-> cantor_pair(values[2 * i], values[2 * i])]
         IN  [err |-> "ok", value |-> PairRounds(half, height - 1)[1], leaves |-> values]

\* compute_subtree_cantor, lines 26-41: the value returned or the ValueError
\* raised, and the leaf list it built (<<>>: none).  leaf_count exceeds
\* sys.maxsize from height 63 on.
compute_subtree_cantor(base, height, max_compute_height) ==
    IF height < 0
    THEN [err |-> "height must be >= 0", value |-> 0, leaves |-> <<>>]
    ELSE IF height > max_compute_height
    THEN [err |-> "exceeds max_compute_height", value |-> 0, leaves |-> <<>>]
    ELSE IF height = 0
    THEN [err |-> "ok", value |-> base, leaves |-> <<>>]
    ELSE IF height >= 63
    THEN [err |-> "leaf_count exceeds sys.maxsize", value |-> 0, leaves |-> <<>>]
    ELSE LET values == [i \in 1..Shl(1, height) |-> base + i - 1]
         IN  [err |-> "ok", value |-> PairRounds(values, height)[1], leaves |-> values]

\* compute_axis_cantor with its max_compute_height argument, as a number.
compute_axis_cantor_int(v1, v2, max_compute_height) ==
    LET h == find_lca_height(v1, v2)
        base == Shl(Shr(v1, h), h)
    IN  compute_subtree_cantor(base, h, max_compute_height)

\* compute_movement_proof_xyz with its max_compute_height argument: the
\* three roots (combined and hashed as in compute_movement_proof_xyz above)
\* or the first ValueError, and the leaf lists built on the way.
compute_movement_proof_xyz_int(x1, y1, z1, x2, y2, z2, max_compute_height) ==
    LET cx == compute_axis_cantor_int(x1, x2, max_compute_height)
        cy == compute_axis_cantor_int(y1, y2, max_compute_height)
        cz == compute_axis_cantor_int(z1, z2, max_compute_height)
    IN  IF cx.err # "ok" THEN [err |-> cx.err, proof |-> <<>>, built |-> <<>>]
        ELSE IF cy.err # "ok" THEN [err |-> cy.err, proof |-> <<>>, built |-> <<cx.leaves>>]
        ELSE IF cz.err # "ok"
        THEN [err |-> cz.err, proof |-> <<>>, built |-> <<cx.leaves, cy.leaves>>]
        ELSE [err |-> "ok", proof |-> <<cx.value, cy.value, cz.value>>,
              built |-> <<cx.leaves, cy.leaves, cz.leaves>>]

\* ------------------------------------------------------------- coords.py
RECURSIVE InterleaveFrom(_, _, _, _)
InterleaveFrom(i, x, y, z) ==
    IF i >= AXIS_BITS THEN 0
    ELSE Shl(Bit(z, i), 1 + 3 * i) + Shl(Bit(y, i), 2 + 3 * i) + Shl(Bit(x, i), 3 + 3 * i)
         + InterleaveFrom(i + 1, x, y, z)

\* xyz_to_coord without the mask on the plane.
xyz_to_coord_NoMask(x, y, z, plane) == plane + InterleaveFrom(0, x, y, z)

xyz_to_coord(x, y, z, plane) == (plane % 2) + InterleaveFrom(0, x, y, z)

RECURSIVE AxisFrom(_, _, _)
AxisFrom(i, coord, off) ==
    IF i >= AXIS_BITS THEN 0
    ELSE Shl(Bit(coord, off + 3 * i), i) + AxisFrom(i + 1, coord, off)

\* coord_to_xyz reading y and z from each other's bits.
coord_to_xyz_SwapYZ(coord) ==
    [x |-> AxisFrom(0, coord, 3), y |-> AxisFrom(0, coord, 1),
     z |-> AxisFrom(0, coord, 2), plane |-> coord % 2]

coord_to_xyz(coord) ==
    [x |-> AxisFrom(0, coord, 3), y |-> AxisFrom(0, coord, 2),
     z |-> AxisFrom(0, coord, 1), plane |-> coord % 2]

\* int.to_bytes(32, "big").hex(): fixed-width big-endian hex digits.
ToHex(n) == [i \in 1..HEX_LEN |-> (n \div (16 ^ (HEX_LEN - i))) % 16]

\* int.from_bytes(bytes.fromhex(h), "big")
RECURSIVE FromHexN(_, _)
FromHexN(h, n) == IF n = 0 THEN 0 ELSE 16 * FromHexN(h, n - 1) + h[n]
FromHex(h) == FromHexN(h, Len(h))

_coord_hex_from_xyz(x, y, z, plane) == ToHex(xyz_to_coord(x, y, z, plane))

\* Decimal values on a grid: degrees for longitudes, and AngleSteps grid
\* points per quarter turn for radians, so that PI / 2, PI and 2 PI are on it.
\* Decimal's % takes the sign of the dividend.
decimal_rem(a, b) == IF a < 0 THEN -(Abs(a) % Abs(b)) ELSE a % Abs(b)

HALF_TURN_DEG == 180
FULL_TURN_DEG == 360
_wrap_lon_deg(lon_deg) ==
    LET lon == decimal_rem(lon_deg + HALF_TURN_DEG, FULL_TURN_DEG)
    IN  lon - HALF_TURN_DEG

HALF_PI == AngleSteps
PI == 2 * HALF_PI
TWO_PI == PI * 2

\* The range reduction of _sin_cos_decimal: x after the remainder, and the
\* argument and the cosine's sign the Taylor series get.
_sin_cos_decimal(x) ==
    LET x0 == decimal_rem(x, TWO_PI)
        x1 == IF x0 > PI THEN x0 - TWO_PI ELSE x0
    IN  IF x1 > HALF_PI THEN [mod |-> x0, arg |-> PI - x1, cos_sign |-> -1]
        ELSE IF x1 < -HALF_PI THEN [mod |-> x0, arg |-> -PI - x1, cos_sign |-> -1]
        ELSE [mod |-> x0, arg |-> x1, cos_sign |-> 1]

\* ------------------------------------------- coords.py: GPS to dataspace
\* Decimal lengths are whole metres (thousandths of a kilometre) and the axis
\* is DATASPACE_AXIS_KM kilometres long, so that every product taken in the
\* DECIMAL_PREC-digit context is exact; an operation under another
\* precision rounds its result to that many significant digits, ties to even.
DATASPACE_AXIS_KM == 1
METRES_PER_KM == 1000
AXIS_CENTER == 2 ^ (AXIS_BITS - 1)
PLANE_DATASPACE == 0

RECURSIVE DecimalDigits(_)
DecimalDigits(n) == IF n < 10 THEN 1 ELSE 1 + DecimalDigits(n \div 10)

RoundHalfEvenDiv(n, d) ==
    LET q == Abs(n) \div d
        r == Abs(n) % d
        mag == IF 2 * r > d \/ (2 * r = d /\ q % 2 = 1) THEN q + 1 ELSE q
    IN  IF n < 0 THEN -mag ELSE mag

RoundToPrec(m, prec) ==
    LET d == DecimalDigits(Abs(m))
    IN  IF d <= prec THEN m
        ELSE RoundHalfEvenDiv(m, 10 ^ (d - prec)) * 10 ^ (d - prec)

_clamp_int(v, lo, hi) == IF v < lo THEN lo ELSE IF v > hi THEN hi ELSE v

_km_to_axis_u(km_from_center) ==
    LET units_per_km == AXIS_UNITS \div DATASPACE_AXIS_KM
        u == km_from_center * units_per_km + AXIS_CENTER * METRES_PER_KM
        u_int == RoundHalfEvenDiv(u, METRES_PER_KM)
    IN  _clamp_int(u_int, 0, AXIS_MAX)

ecef_km_to_dataspace_xyz(x_km, y_km, z_km) ==
    <<_km_to_axis_u(x_km), _km_to_axis_u(z_km), _km_to_axis_u(y_km)>>

\* gps_to_dataspace_xyz from the ECEF metres geodetic_to_ecef_m returned: the
\* three divisions by 1000 are taken under the caller's decimal precision.
gps_to_dataspace_xyz(ecef_m, caller_prec) ==
    ecef_km_to_dataspace_xyz(RoundToPrec(ecef_m[1], caller_prec),
                             RoundToPrec(ecef_m[2], caller_prec),
                             RoundToPrec(ecef_m[3], caller_prec))

gps_to_dataspace_coord(ecef_m, caller_prec) ==
    LET xyz == gps_to_dataspace_xyz(ecef_m, caller_prec)
    IN  xyz_to_coord(xyz[1], xyz[2], xyz[3], PLANE_DATASPACE)

\* -------------------------------------------------------- nostr_event.py
compute_event_id_hex(pubkey_hex, created_at, kind, tags, content) ==
    <<0, pubkey_hex, created_at, kind, tags, content>>

new_event(pubkey_hex, created_at, kind, tags) ==
    [id |-> compute_event_id_hex(pubkey_hex, created_at, kind, tags, ""),
     pubkey |-> pubkey_hex, created_at |-> created_at, kind |-> kind,
     tags |-> tags, content |-> "", sig |-> ""]

\* str(n) of a non-negative int: its decimal digits as characters.
DigitChars == <<"0", "1", "2", "3", "4", "5", "6", "7", "8", "9">>
RECURSIVE str_int(_)
str_int(n) == IF n < 10 THEN <<DigitChars[n + 1]>> ELSE str_int(n \div 10) \o <<DigitChars[(n % 10) + 1]>>

_sector_tags_from_coord_hex_WithPlane(coord_hex) ==
    LET coord_int == FromHex(coord_hex)
        p == coord_to_xyz(coord_int)
        sx == Shr(p.x, SECTOR_BITS)
        sy == Shr(p.y, SECTOR_BITS)
        sz == Shr(p.z, SECTOR_BITS) + (coord_int % 2)
    IN  << <<"X", str_int(sx)>>, <<"Y", str_int(sy)>>, <<"Z", str_int(sz)>>,
           <<"S", str_int(sx) \o <<"-">> \o str_int(sy) \o <<"-">> \o str_int(sz)>> >>

_sector_tags_from_coord_hex(coord_hex) ==
    LET p == coord_to_xyz(FromHex(coord_hex))
        sx == Shr(p.x, SECTOR_BITS)
        sy == Shr(p.y, SECTOR_BITS)
        sz == Shr(p.z, SECTOR_BITS)
    IN  << <<"X", str_int(sx)>>, <<"Y", str_int(sy)>>, <<"Z", str_int(sz)>>,
           <<"S", str_int(sx) \o <<"-">> \o str_int(sy) \o <<"-">> \o str_int(sz)>> >>

make_spawn_event(pubkey_hex, created_at, coord_hex) ==
    new_event(pubkey_hex, created_at, KIND,
              << <<"A", "spawn">>, <<"C", coord_hex>> >> \o _sector_tags_from_coord_hex(coord_hex))

make_hop_event(pubkey_hex, created_at, genesis_event_id, previous_event_id, prev_coord_hex, coord_hex, proof_hash_hex) ==
    new_event(pubkey_hex, created_at, KIND,
              << <<"A", "hop">>,
                 <<"e", genesis_event_id, "", "genesis">>,
                 <<"e", previous_event_id, "", "previous">>,
                 <<"c", prev_coord_hex>>,
                 <<"C", coord_hex>>,
                 <<"proof", proof_hash_hex>> >> \o _sector_tags_from_coord_hex(coord_hex))

\* cli._get_tag: the value of the first tag with the given key, or "".
_get_tag(event, key) ==
    LET idx == {i \in 1..Len(event.tags) : event.tags[i][1] = key}
    IN  IF idx = {} THEN ""
        ELSE event.tags[CHOOSE i \in idx : \A j \in idx : i <= j][2]

\* The id carried by the e-tag with the given marker ("genesis"/"previous").
ETag(event, marker) ==
    LET idx == {i \in 1..Len(event.tags) :
                    /\ event.tags[i][1] = "e"
                    /\ Len(event.tags[i]) >= 4
                    /\ event.tags[i][4] = marker}
    IN  IF idx = {} THEN ""
        ELSE event.tags[CHOOSE i \in idx : TRUE][2]

IsHop(event) == _get_tag(event, "A") = "hop"

\* -------------------------------------------------------------- toward.py
\* choose_next_axis_value_toward always heading for the upper end of the block.
choose_next_axis_value_toward_Upward(current, target, max_lca_height) ==
    IF current = target
    THEN [err |-> "ok", next |-> current, lca_height |-> 0]
    ELSE IF max_lca_height <= 0
    THEN [err |-> "max_lca_height must be >= 1", next |-> current, lca_height |-> 0]
    ELSE
      LET block_base == Shl(Shr(current, max_lca_height), max_lca_height)
          nxt == block_base + Shl(1, max_lca_height) - 1
      IN  IF nxt = current
          THEN [err |-> "cannot progress from", next |-> current, lca_height |-> 0]
          ELSE IF ~(0 <= nxt /\ nxt <= AXIS_MAX)
          THEN [err |-> "next value out of axis range", next |-> current, lca_height |-> 0]
          ELSE [err |-> "ok", next |-> nxt, lca_height |-> find_lca_height(current, nxt)]

\* The result of choose_next_axis_value_toward: a StepResult (err = "ok") or
\* the ValueError it raises.
choose_next_axis_value_toward(current, target, max_lca_height) ==
    IF current = target
    THEN [err |-> "ok", next |-> current, lca_height |-> 0]
    ELSE IF max_lca_height <= 0
    THEN [err |-> "max_lca_height must be >= 1", next |-> current, lca_height |-> 0]
    ELSE
      LET block_base == Shl(Shr(current, max_lca_height), max_lca_height)
          block_end == block_base + Shl(1, max_lca_height) - 1
          nxt == IF target < block_base THEN block_base
                 ELSE IF target > block_end THEN block_end
                 ELSE target
      IN  IF nxt = current
          THEN [err |-> "cannot progress from", next |-> current, lca_height |-> 0]
          ELSE IF ~(0 <= nxt /\ nxt <= AXIS_MAX)
          THEN [err |-> "next value out of axis range", next |-> current, lca_height |-> 0]
          ELSE IF find_lca_height(current, nxt) > max_lca_height
          THEN [err |-> "internal error", next |-> current, lca_height |-> 0]
          ELSE [err |-> "ok", next |-> nxt, lca_height |-> find_lca_height(current, nxt)]

\* ------------------------------------------------------------- parsing.py
\* A destination argument as the caller types it: "x,y,z", "x,y,z,plane" or
\* a coordinate in hex.
parse_destination_xyz_or_coord(value, default_plane) ==
    IF value.kind = "xyz3"
    THEN [x |-> value.x, y |-> value.y, z |-> value.z, plane |-> default_plane]
    ELSE IF value.kind = "xyz4"
    THEN [x |-> value.x, y |-> value.y, z |-> value.z, plane |-> value.plane]
    ELSE coord_to_xyz(FromHex(value.hex))

\* Text is a sequence of characters.  normalize_hex_32 reads a coordinate or a
\* key as the caller types it; HEX_LEN stands for its 64 characters.
HexDigits == {"0", "1", "2", "3", "4", "5", "6", "7", "8", "9", "a", "b", "c", "d", "e", "f"}
UpperHexDigits == {"A", "B", "C", "D", "E", "F"}
Whitespace == {" "}

lower_char(c) ==
    CASE c = "A" -> "a" [] c = "B" -> "b" [] c = "C" -> "c" [] c = "D" -> "d"
      [] c = "E" -> "e" [] c = "F" -> "f" [] c = "G" -> "g" [] c = "X" -> "x"
      [] OTHER -> c

lower(s) == [i \in 1..Len(s) |-> lower_char(s[i])]

RECURSIVE lstrip(_)
lstrip(s) == IF s # <<>> /\ Head(s) \in Whitespace THEN lstrip(Tail(s)) ELSE s

RECURSIVE rstrip(_)
rstrip(s) == IF s # <<>> /\ s[Len(s)] \in Whitespace THEN rstrip(SubSeq(s, 1, Len(s) - 1)) ELSE s

strip(s) == rstrip(lstrip(s))

removeprefix(s, prefix) ==
    IF Len(s) >= Len(prefix) /\ SubSeq(s, 1, Len(prefix)) = prefix
    THEN SubSeq(s, Len(prefix) + 1, Len(s))
    ELSE s

\* int(s, 16) succeeds: the text, less surrounding whitespace, is an optional
\* sign, an optional 0x, and hex digits with single underscores between them
\* (one underscore may also follow the 0x).
int_base16_accepts(s) ==
    LET t0 == strip(s)
        t1 == IF t0 # <<>> /\ Head(t0) \in {"+", "-"} THEN Tail(t0) ELSE t0
        t2 == IF Len(t1) >= 2 /\ t1[1] = "0" /\ t1[2] \in {"x", "X"}
              THEN LET u == SubSeq(t1, 3, Len(t1))
                   IN  IF u # <<>> /\ Head(u) = "_" THEN Tail(u) ELSE u
              ELSE t1
    IN  /\ t2 # <<>>
        /\ t2[1] # "_"
        /\ t2[Len(t2)] # "_"
        /\ \A i \in 1..Len(t2) : t2[i] \in HexDigits \cup UpperHexDigits \cup {"_"}
        /\ \A i \in 1..(Len(t2) - 1) : ~(t2[i] = "_" /\ t2[i + 1] = "_")

zfill(s, width) ==
    LET zeros == [i \in 1..(width - Len(s)) |-> "0"]
    IN  IF Len(s) >= width THEN s
        ELSE IF s # <<>> /\ Head(s) \in {"+", "-"} THEN <<Head(s)>> \o zeros \o Tail(s)
        ELSE zeros \o s

normalize_hex_32(text) ==
    LET s == removeprefix(lower(strip(text)), <<"0", "x">>)
    IN  IF s = <<>> THEN [err |-> "ValueError", value |-> <<>>]
        ELSE IF Len(s) > HEX_LEN THEN [err |-> "ValueError", value |-> <<>>]
        ELSE IF ~int_base16_accepts(s) THEN [err |-> "ValueError", value |-> <<>>]
        ELSE [err |-> "ok", value |-> zfill(s, HEX_LEN)]

\* ------------------------------------------------------------------ state
VARIABLES
    chains,      \* chains directory: label -> sequence of events (<<>>: no file)
    state,       \* state.json
    cfg,         \* config.json: default_max_lca_height
    clock,       \* time.time()
    pc,          \* position of the running command:
                 \*   "idle", "loop", "hop", "save", "done"
    cmd,         \* locals of the running move command
    exit_code,   \* exit code of the last finished command
    msg,         \* last message the command printed
    proofs,      \* number of movement proofs computed so far
    fn           \* last call of a pure function: its arguments and result

vars == <<chains, state, cfg, clock, pc, cmd, exit_code, msg, proofs, fn>>

Labels == {"a", "b"}

\* Key pairs spawn can generate (pubkey_hex is also the spawn coordinate).
Keys == {[priv |-> "k1", pub |-> _coord_hex_from_xyz(2, 1, 0, 1)]}

\* The --max-lca-height option: given = FALSE when omitted (None).
NoHeight == [given |-> FALSE, v |-> 0]
Height(h) == [given |-> TRUE, v |-> h]

NoCmd ==
    [mode |-> "none", label |-> "", genesis_id |-> <<>>, prev_event_id |-> <<>>,
     max_lca_height |-> NoHeight,
     x1 |-> 0, y1 |-> 0, z1 |-> 0, plane1 |-> 0, eff |-> 0,
     tx |-> 0, ty |-> 0, tz |-> 0, tplane |-> 0, max_hops |-> 0, hops |-> 0,
     x2 |-> 0, y2 |-> 0, z2 |-> 0, plane2 |-> 0, limit |-> 0,
     bx |-> FALSE, by |-> FALSE, bz |-> FALSE,
     coord_hex |-> <<>>, event_id |-> <<>>]

NoCall == [name |-> "none"]

\* exit_code while a command is running.
Running == -1

\* Target labels: the ones the caller gives, unnamed_N, and the empty label.
Named(s) == [name |-> s, n |-> 0]
Unnamed(n) == [name |-> "unnamed", n |-> n]
NoLabel == Named("")

\* The state file's record as cli.py and the tests construct it.
CyberspaceState(privkey_hex, pubkey_hex, coord_hex, active_chain_label, targets, active_target_label) == [privkey_hex |-> privkey_hex, pubkey_hex |-> pubkey_hex, coord_hex |-> coord_hex, active_chain_label |-> active_chain_label, targets |-> targets, active_target_label |-> active_target_label]

\* state.py: the state file is the dictionary to_dict writes, and load_state
\* returns the object from_dict builds from it.
to_dict_DropTargets(st) == [privkey_hex |-> st.privkey_hex, pubkey_hex |-> st.pubkey_hex, coord_hex |-> st.coord_hex, active_chain_label |-> st.active_chain_label, targets |-> <<>>, active_target_label |-> NoLabel]

to_dict(st) == [privkey_hex |-> st.privkey_hex, pubkey_hex |-> st.pubkey_hex, coord_hex |-> st.coord_hex, active_chain_label |-> st.active_chain_label, targets |-> st.targets, active_target_label |-> st.active_target_label]

from_dict(d) == CyberspaceState(d.privkey_hex, d.pubkey_hex, d.coord_hex, d.active_chain_label, d.targets, d.active_target_label)

save_state(st) == to_dict(st)

load_state(file) == from_dict(file)

\* A home directory as `spawn --chain a` leaves it for the key whose public
\* key is the coordinate s: chain "a" with the spawn event and a state file
\* naming it; and a config file with default_max_lca_height d.
Home(s, d) ==
    LET c0 == _coord_hex_from_xyz(s[1], s[2], s[3], s[4])
        pub == c0
    IN  /\ chains = [l \in Labels |->
                       IF l = "a" THEN <<make_spawn_event(pub, 0, c0)>> ELSE <<>>]
        /\ state = CyberspaceState("k0", pub, c0, "a", <<>>, NoLabel)
        /\ cfg = [default_max_lca_height |-> d]
        /\ clock = 0
        /\ pc = "idle"
        /\ cmd = NoCmd
        /\ exit_code = 0
        /\ msg = ""
        /\ proofs = 0
        /\ fn = NoCall

Init == Home(<<0, 0, 0, 0>>, MaxHeightInput)

\* -------------------------------------------------------------- chains.py
read_events(label) == chains[label]

chain_length(label) == Len(chains[label])

\* Appends one line to the chain file; the file is opened in append mode and
\* nothing of the existing content is read or compared.
append_event(ch, label, event) == [ch EXCEPT ![label] = Append(@, event)]

create_new_chain(ch, label, genesis_event) == [ch EXCEPT ![label] = <<genesis_event>>]

\* ----------------------------------------------------------------- inputs
Xyz3(x, y, z) == [kind |-> "xyz3", x |-> x, y |-> y, z |-> z]
Xyz4(x, y, z, p) == [kind |-> "xyz4", x |-> x, y |-> y, z |-> z, plane |-> p]
CoordHex(x, y, z, p) == [kind |-> "coord", hex |-> _coord_hex_from_xyz(x, y, z, p)]

HeightOpts == {NoHeight} \cup {Height(h) : h \in 0..MaxHeightInput}

\* Arguments of the callers of Spec (spawn, chain use and moves).
ChainDests == {Xyz3(1, 0, 0), Xyz4(0, 0, 0, 1)}
ChainTargets == {Xyz3(2, 1, 0)}
ChainBys == {<<1, 0, 0>>}
ChainHeights == {NoHeight}

\* Starting points and arguments of the move commands of SpecHop.
HopStarts == {<<0, 0, 0, 0>>, <<1, 0, 0, 0>>, <<3, 1, 0, 1>>, <<AXIS_MAX, 0, 1, 0>>}
XIn == {-1, 0, 1, 2, 4, AXIS_MAX, AXIS_UNITS}
YIn == {0, 1}
ZIn == {-1, 0, 1}
PlaneIn == {0, 1, 2}
DestInputs ==
    {Xyz3(x, y, z) : x \in XIn, y \in YIn, z \in ZIn}
    \cup {Xyz4(x, y, z, p) : x \in XIn, y \in YIn, z \in ZIn, p \in PlaneIn}
    \cup {CoordHex(0, 0, 0, 1), CoordHex(1, 1, 0, 0)}
ByInputs ==
    {<<dx, dy, dz>> : dx \in {-1, 0, 1, 4}, dy \in {0, 1}, dz \in {-1, 0}}
    \cup {<<dx, 0, 0, p>> : dx \in {0, 1}, p \in PlaneIn}
    \cup {<<1, 0>>}
MaxHopsOpts == {0, 1}

\* Starting points and targets of the toward walks of SpecToward.
TowardStarts == {<<x, y, 0, 0>> : x \in 0..AXIS_MAX, y \in {0, 1}}
TowardTargets ==
    {Xyz4(x, y, z, p) : x \in -1..AXIS_UNITS, y \in {0, 2}, z \in {0, 1}, p \in {0, 1}}
TowardHeights == {Height(h) : h \in 0..MaxHeightInput}

\* ------------------------------------------------------------- targets.py
\* Index of the first target with the label (or the coordinate); 0: none.
_find_target_index_by_label(targets, label) ==
    LET S == {i \in 1..Len(targets) : targets[i].label = label}
    IN  IF S = {} THEN 0 ELSE CHOOSE i \in S : \A j \in S : i <= j

_find_target_index_by_coord_hex(targets, coord_hex) ==
    LET S == {i \in 1..Len(targets) : targets[i].coord_hex = coord_hex}
    IN  IF S = {} THEN 0 ELSE CHOOSE i \in S : \A j \in S : i <= j

\* _next_unnamed_label numbering by the length of the list.
_next_unnamed_label_Count(targets) == Unnamed(Len(targets) + 1)

_next_unnamed_label(targets) ==
    LET N == {targets[i].label.n : i \in {j \in 1..Len(targets) : targets[j].label.name = "unnamed"}} \cup {0}
    IN  Unnamed((CHOOSE n \in N : \A k \in N : k <= n) + 1)

\* set_target: the state with the target added, updated or selected.
set_target(st, coord_hex, label) ==
    IF label # NoLabel
    THEN LET idx == _find_target_index_by_label(st.targets, label)
         IN  [st EXCEPT
                !.targets = IF idx > 0
                            THEN [st.targets EXCEPT ![idx].coord_hex = coord_hex]
                            ELSE Append(st.targets, [label |-> label, coord_hex |-> coord_hex]),
                !.active_target_label = label]
    ELSE LET existing_idx == _find_target_index_by_coord_hex(st.targets, coord_hex)
             new_label == _next_unnamed_label(st.targets)
         IN  IF existing_idx > 0 /\ st.targets[existing_idx].label # NoLabel
             THEN [st EXCEPT !.active_target_label = st.targets[existing_idx].label]
             ELSE [st EXCEPT
                     !.targets = Append(st.targets, [label |-> new_label, coord_hex |-> coord_hex]),
                     !.active_target_label = new_label]

\* get_current_target returning the first saved target whatever the label.
get_current_target_First(st) ==
    IF st.active_target_label = NoLabel \/ st.targets = <<>>
    THEN [found |-> FALSE, label |-> NoLabel, coord_hex |-> <<>>]
    ELSE [found |-> TRUE, label |-> st.targets[1].label,
          coord_hex |-> st.targets[1].coord_hex]

\* get_current_target: the target the active label names, if any.
get_current_target(st) ==
    LET idx == _find_target_index_by_label(st.targets, st.active_target_label)
    IN  IF st.active_target_label = NoLabel \/ idx = 0
        THEN [found |-> FALSE, label |-> NoLabel, coord_hex |-> <<>>]
        ELSE [found |-> TRUE, label |-> st.targets[idx].label,
              coord_hex |-> st.targets[idx].coord_hex]

\* format_target_list: one line per target that has a label and a coordinate,
\* marked when its label is the active one.
RECURSIVE format_target_list_from(_, _, _)
format_target_list_from(targets, cur, i) ==
    IF i > Len(targets) THEN <<>>
    ELSE IF targets[i].label = NoLabel \/ targets[i].coord_hex = <<>>
    THEN format_target_list_from(targets, cur, i + 1)
    ELSE <<[current |-> targets[i].label = cur, label |-> targets[i].label,
            coord_hex |-> targets[i].coord_hex]>>
         \o format_target_list_from(targets, cur, i + 1)

format_target_list(st) == format_target_list_from(st.targets, st.active_target_label, 1)

\* ----------------------------------------------------------- cli.py: move
Idle == pc \in {"idle", "done"}

\* MoveProlog taking the genesis id as the previous event id.
MoveProlog_PrevIsGenesis(mode, max_lca_height) ==
    LET label == state.active_chain_label
        events == read_events(label)
        p == coord_to_xyz(FromHex(state.coord_hex))
    IN  [NoCmd EXCEPT
            !.mode = mode, !.label = label, !.max_lca_height = max_lca_height,
            !.eff = IF max_lca_height.given THEN max_lca_height.v
                    ELSE cfg.default_max_lca_height,
            !.genesis_id = events[1].id,
            !.prev_event_id = events[1].id,
            !.x1 = p.x, !.y1 = p.y, !.z1 = p.z, !.plane1 = p.plane]

\* move, lines 737-752: the locals every mode starts from.
MoveProlog(mode, max_lca_height) ==
    LET label == state.active_chain_label
        events == read_events(label)
        p == coord_to_xyz(FromHex(state.coord_hex))
    IN  [NoCmd EXCEPT
            !.mode = mode, !.label = label, !.max_lca_height = max_lca_height,
            !.eff = IF max_lca_height.given THEN max_lca_height.v
                    ELSE cfg.default_max_lca_height,
            !.genesis_id = events[1].id,
            !.prev_event_id = events[Len(events)].id,
            !.x1 = p.x, !.y1 = p.y, !.z1 = p.z, !.plane1 = p.plane]

\* The command stops with an exit code and a message; nothing is written.
Stop(c, code, text) ==
    /\ pc' = "done"
    /\ cmd' = [NoCmd EXCEPT !.mode = c.mode]
    /\ exit_code' = code
    /\ msg' = text
    /\ UNCHANGED <<chains, state, proofs>>

\* CallSingleHop handing a toward walk's hops the target's plane at once.
CallSingleHop_TargetPlane(c, x2, y2, z2, plane2, max_compute_height) ==
    /\ pc' = "hop"
    /\ cmd' = [c EXCEPT !.x2 = x2, !.y2 = y2, !.z2 = z2,
                        !.plane2 = IF c.mode = "toward" THEN c.tplane ELSE plane2,
                        !.limit = max_compute_height,
                        !.coord_hex = <<>>, !.event_id = <<>>]
    /\ exit_code' = Running
    /\ msg' = ""
    /\ UNCHANGED <<chains, state, proofs>>

\* The call _do_single_hop(x2, y2, z2, plane2, max_compute_height) is made.
CallSingleHop(c, x2, y2, z2, plane2, max_compute_height) ==
    /\ pc' = "hop"
    /\ cmd' = [c EXCEPT !.x2 = x2, !.y2 = y2, !.z2 = z2, !.plane2 = plane2,
                        !.limit = max_compute_height,
                        !.coord_hex = <<>>, !.event_id = <<>>]
    /\ exit_code' = Running
    /\ msg' = ""
    /\ UNCHANGED <<chains, state, proofs>>

\* move --to DEST, lines 942-955.
MoveTo(to, max_lca_height) ==
    /\ Idle
    /\ read_events(state.active_chain_label) # <<>>
    /\ LET c == MoveProlog("to", max_lca_height)
           dest == parse_destination_xyz_or_coord(to, c.plane1)
       IN  CallSingleHop(c, dest.x, dest.y, dest.z, dest.plane, c.eff)
    /\ UNCHANGED <<cfg, clock, fn>>

\* move --by DX,DY,DZ[,PLANE], lines 957-985.
MoveBy(vals, max_lca_height) ==
    /\ Idle
    /\ read_events(state.active_chain_label) # <<>>
    /\ LET c == MoveProlog("by", max_lca_height)
       IN  IF Len(vals) \notin {3, 4}
           THEN Stop(c, 2, "--by expects dx,dy,dz")
           ELSE IF Len(vals) = 3
           THEN CallSingleHop(c, c.x1 + vals[1], c.y1 + vals[2], c.z1 + vals[3],
                              c.plane1, c.eff)
           ELSE IF <<vals[1], vals[2], vals[3]>> # <<0, 0, 0>>
           THEN Stop(c, 2, "--by with an explicit plane only supports 0,0,0,plane")
           ELSE IF vals[4] \notin {0, 1}
           THEN Stop(c, 2, "plane must be 0 or 1")
           ELSE CallSingleHop(c, c.x1, c.y1, c.z1, vals[4], c.eff)
    /\ UNCHANGED <<cfg, clock, fn>>

\* move._do_single_hop, lines 776-829: validate, prove, build the event and
\* append it.  Lines 831-835 (the state save) are the SaveState step.  cap
\* bounds the number of proofs computed in a run.
SingleHop(cap) ==
    /\ pc = "hop"
    /\ LET c == cmd
       IN  IF c.plane2 \notin {0, 1}
           THEN Stop(c, 2, "Destination plane must be 0 or 1")
           ELSE IF ~(/\ 0 <= c.x2 /\ c.x2 <= AXIS_MAX
                     /\ 0 <= c.y2 /\ c.y2 <= AXIS_MAX
                     /\ 0 <= c.z2 /\ c.z2 <= AXIS_MAX)
           THEN Stop(c, 2, "Destination is out of u85 range")
           ELSE IF Max3(find_lca_height(c.x1, c.x2), find_lca_height(c.y1, c.y2),
                        find_lca_height(c.z1, c.z2)) > c.limit
           THEN Stop(c, 2, "Move is too large for a single hop")
           ELSE
             LET coord_hex == _coord_hex_from_xyz(c.x2, c.y2, c.z2, c.plane2)
                 proof == compute_movement_proof_xyz(c.x1, c.y1, c.z1, c.x2, c.y2, c.z2)
                 hop_event == make_hop_event(state.pubkey_hex, clock, c.genesis_id,
                                             c.prev_event_id, state.coord_hex,
                                             coord_hex, proof)
             IN  /\ proofs < cap
                 /\ proofs' = proofs + 1
                 /\ chains' = append_event(chains, c.label, hop_event)
                 /\ cmd' = [c EXCEPT !.coord_hex = coord_hex, !.event_id = hop_event.id]
                 /\ pc' = "save"
                 /\ msg' = "appended"
                 /\ UNCHANGED <<state, exit_code>>
    /\ UNCHANGED <<cfg, clock, fn>>

DoSingleHop == SingleHop(MaxHops)

\* _axis_step crossing the boundary whatever height the crossing needs.
_axis_step_AnyHeight(current, target, effective_max_lca_height) ==
    LET r == choose_next_axis_value_toward(current, target, effective_max_lca_height)
        nxt == IF target > current THEN current + 1 ELSE current - 1
    IN  IF r.err = "ok"
        THEN [err |-> "ok", next |-> r.next, h |-> r.lca_height, boundary |-> FALSE]
        ELSE IF r.err # "cannot progress from"
        THEN [err |-> r.err, next |-> current, h |-> 0, boundary |-> FALSE]
        ELSE IF ~(0 <= nxt /\ nxt <= AXIS_MAX)
        THEN [err |-> r.err, next |-> current, h |-> 0, boundary |-> FALSE]
        ELSE [err |-> "ok", next |-> nxt, h |-> find_lca_height(current, nxt),
              boundary |-> TRUE]

\* move._axis_step, lines 883-906: the per-axis rule, and the one-step
\* boundary crossing when the rule reports "cannot progress".
_axis_step(current, target, effective_max_lca_height) ==
    LET r == choose_next_axis_value_toward(current, target, effective_max_lca_height)
        nxt == IF target > current THEN current + 1 ELSE current - 1
    IN  IF r.err = "ok"
        THEN [err |-> "ok", next |-> r.next, h |-> r.lca_height, boundary |-> FALSE]
        ELSE IF r.err # "cannot progress from"
        THEN [err |-> r.err, next |-> current, h |-> 0, boundary |-> FALSE]
        ELSE IF ~(0 <= nxt /\ nxt <= AXIS_MAX)
        THEN [err |-> r.err, next |-> current, h |-> 0, boundary |-> FALSE]
        ELSE IF find_lca_height(current, nxt) # effective_max_lca_height + 1
        THEN [err |-> "boundary crossing would require max_lca_height",
              next |-> current, h |-> find_lca_height(current, nxt), boundary |-> FALSE]
        ELSE [err |-> "ok", next |-> nxt, h |-> find_lca_height(current, nxt),
              boundary |-> TRUE]

\* move --toward DEST, lines 843-851: parse the target and enter the loop.
MoveToward(toward, max_lca_height, max_hops) ==
    /\ Idle
    /\ read_events(state.active_chain_label) # <<>>
    /\ LET c == MoveProlog("toward", max_lca_height)
           target == parse_destination_xyz_or_coord(toward, c.plane1)
       IN  cmd' = [c EXCEPT !.tx = target.x, !.ty = target.y, !.tz = target.z,
                            !.tplane = target.plane, !.max_hops = max_hops]
    /\ pc' = "loop"
    /\ exit_code' = Running
    /\ msg' = ""
    /\ UNCHANGED <<chains, state, cfg, clock, proofs, fn>>

\* One iteration of the toward loop, lines 853-928, up to the call of
\* _do_single_hop for the hop it decides on.
TowardStep ==
    /\ pc = "loop"
    /\ LET c == cmd
           sx == _axis_step(c.x1, c.tx, c.eff)
           sy == _axis_step(c.y1, c.ty, c.eff)
           sz == _axis_step(c.z1, c.tz, c.eff)
           hop_limit == IF sx.boundary \/ sy.boundary \/ sz.boundary
                        THEN c.eff + 1 ELSE c.eff
       IN  IF <<c.x1, c.y1, c.z1, c.plane1>> = <<c.tx, c.ty, c.tz, c.tplane>>
           THEN Stop(c, 0, "Arrived.")
           ELSE IF c.max_hops # 0 /\ c.hops >= c.max_hops
           THEN Stop(c, 0, "Stopped after max_hops")
           ELSE IF <<c.x1, c.y1, c.z1>> = <<c.tx, c.ty, c.tz>> /\ c.plane1 # c.tplane
           THEN CallSingleHop([c EXCEPT !.bx = FALSE, !.by = FALSE, !.bz = FALSE],
                              c.x1, c.y1, c.z1, c.tplane, c.eff)
           ELSE IF sx.err # "ok" \/ sy.err # "ok" \/ sz.err # "ok"
           THEN Stop(c, 2, "Cannot continue toward target")
           ELSE CallSingleHop([c EXCEPT !.bx = sx.boundary, !.by = sy.boundary,
                                        !.bz = sz.boundary],
                              sx.next, sy.next, sz.next, c.plane1, hop_limit)
    /\ UNCHANGED <<cfg, clock, fn>>

\* SaveState leaving the walk's locals at the position before the hop.
SaveState_KeepLocals ==
    /\ pc = "save"
    /\ state' = [state EXCEPT !.coord_hex = cmd.coord_hex]
    /\ IF cmd.mode = "toward"
       THEN /\ cmd' = [cmd EXCEPT !.prev_event_id = cmd.event_id, !.hops = cmd.hops + 1]
            /\ pc' = "loop"
            /\ UNCHANGED exit_code
       ELSE /\ cmd' = [NoCmd EXCEPT !.mode = cmd.mode]
            /\ pc' = "done"
            /\ exit_code' = 0
    /\ msg' = "Moved."
    /\ UNCHANGED <<chains, cfg, clock, proofs, fn>>

\* SaveState writing a state record built anew, without the saved targets.
SaveState_DropTargets ==
    /\ pc = "save"
    /\ state' = CyberspaceState(state.privkey_hex, state.pubkey_hex, cmd.coord_hex, state.active_chain_label, <<>>, NoLabel)
    /\ IF cmd.mode = "toward"
       THEN /\ cmd' = [cmd EXCEPT !.prev_event_id = cmd.event_id,
                                  !.x1 = cmd.x2, !.y1 = cmd.y2, !.z1 = cmd.z2,
                                  !.plane1 = cmd.plane2, !.hops = cmd.hops + 1]
            /\ pc' = "loop"
            /\ UNCHANGED exit_code
       ELSE /\ cmd' = [NoCmd EXCEPT !.mode = cmd.mode]
            /\ pc' = "done"
            /\ exit_code' = 0
    /\ msg' = "Moved."
    /\ UNCHANGED <<chains, cfg, clock, proofs, fn>>

\* move._do_single_hop, lines 831-841: the state file is rewritten with the
\* new coordinate, the locals advance and the call returns.
SaveState ==
    /\ pc = "save"
    /\ state' = [state EXCEPT !.coord_hex = cmd.coord_hex]
    /\ IF cmd.mode = "toward"
       THEN /\ cmd' = [cmd EXCEPT !.prev_event_id = cmd.event_id,
                                  !.x1 = cmd.x2, !.y1 = cmd.y2, !.z1 = cmd.z2,
                                  !.plane1 = cmd.plane2, !.hops = cmd.hops + 1]
            /\ pc' = "loop"
            /\ UNCHANGED exit_code
       ELSE /\ cmd' = [NoCmd EXCEPT !.mode = cmd.mode]
            /\ pc' = "done"
            /\ exit_code' = 0
    /\ msg' = "Moved."
    /\ UNCHANGED <<chains, cfg, clock, proofs, fn>>

\* save_state raises (the temp file cannot be written or renamed): the
\* exception leaves move with the state file as it was.
SaveStateFails ==
    /\ pc = "save"
    /\ pc' = "done"
    /\ cmd' = [NoCmd EXCEPT !.mode = cmd.mode]
    /\ exit_code' = 1
    /\ msg' = "OSError"
    /\ UNCHANGED <<chains, state, cfg, clock, proofs, fn>>

\* KeyboardInterrupt inside the toward loop, lines 937-940.
Interrupt ==
    /\ pc \in {"loop", "hop", "save"}
    /\ cmd.mode = "toward"
    /\ pc' = "done"
    /\ cmd' = [NoCmd EXCEPT !.mode = cmd.mode]
    /\ exit_code' = 130
    /\ msg' = "Interrupted"
    /\ UNCHANGED <<chains, state, cfg, clock, proofs, fn>>

\* move with none of --to/--by/--toward, lines 754-764: the current target,
\* when there is one, becomes the --toward argument "0x<coord_hex>" and the
\* command goes on as move --toward (lines 843-851).
MoveNoDest(max_lca_height, max_hops) ==
    /\ Idle
    /\ read_events(state.active_chain_label) # <<>>
    /\ LET t == get_current_target(state)
       IN  IF t.found /\ t.coord_hex # <<>>
           THEN LET c == MoveProlog("toward", max_lca_height)
                    toward == [kind |-> "coord", hex |-> t.coord_hex]
                    target == parse_destination_xyz_or_coord(toward, c.plane1)
                IN  /\ cmd' = [c EXCEPT !.tx = target.x, !.ty = target.y, !.tz = target.z,
                                        !.tplane = target.plane, !.max_hops = max_hops]
                    /\ pc' = "loop"
                    /\ exit_code' = Running
                    /\ msg' = ""
                    /\ UNCHANGED <<chains, state, proofs>>
           ELSE Stop(MoveProlog("nodest", max_lca_height), 2,
                     "Specify exactly one of --to, --by, or --toward (or set a target)")
    /\ UNCHANGED <<cfg, clock, fn>>

\* move with more than one of --to/--by/--toward, lines 766-768.
MoveAmbiguous(max_lca_height) ==
    /\ Idle
    /\ read_events(state.active_chain_label) # <<>>
    /\ Stop(MoveProlog("ambiguous", max_lca_height), 2,
            "Specify exactly one of --to, --by, or --toward.")
    /\ UNCHANGED <<cfg, clock, fn>>

\* ------------------------------------------------- cli.py: other commands
\* spawn --chain LABEL, lines 185-231: a new key pair, its coordinate, a new
\* chain holding the spawn event, and a state file naming that chain.
Spawn(label, key) ==
    /\ Idle
    /\ cmd' = [NoCmd EXCEPT !.mode = "spawn"]
    /\ pc' = "done"
    /\ LET pub_hex == key.pub
           coord_hex == pub_hex
           spawn_event == make_spawn_event(pub_hex, clock, coord_hex)
       IN  IF chains[label] # <<>>
           THEN /\ exit_code' = 1
                /\ msg' = "FileExistsError"
                /\ UNCHANGED <<chains, state>>
           ELSE /\ exit_code' = 0
                /\ msg' = "Spawned."
                /\ chains' = create_new_chain(chains, label, spawn_event)
                /\ state' = CyberspaceState(key.priv, pub_hex, coord_hex, label, <<>>, NoLabel)
    /\ UNCHANGED <<cfg, clock, proofs, fn>>

\* target set COORD [--label LABEL], lines 116-129 (label = NoLabel: the
\* option is left out).
target_set(coord_hex, label) ==
    /\ Idle
    /\ Len(state.targets) < MaxTargets
    /\ cmd' = [NoCmd EXCEPT !.mode = "target_set"]
    /\ pc' = "done"
    /\ state' = save_state(set_target(load_state(state), coord_hex, label))
    /\ exit_code' = 0
    /\ msg' = "(current)"
    /\ UNCHANGED <<chains, cfg, clock, proofs, fn>>

\* target use LABEL, lines 132-145.
target_use(label) ==
    /\ Idle
    /\ cmd' = [NoCmd EXCEPT !.mode = "target_use"]
    /\ pc' = "done"
    /\ IF _find_target_index_by_label(load_state(state).targets, label) > 0
       THEN /\ state' = save_state([load_state(state) EXCEPT !.active_target_label = label])
            /\ exit_code' = 0
            /\ msg' = "active_target"
       ELSE /\ exit_code' = 1
            /\ msg' = "Unknown target label"
            /\ UNCHANGED state
    /\ UNCHANGED <<chains, cfg, clock, proofs, fn>>

\* target list, lines 148-157: the lines of format_target_list are printed.
target_list ==
    /\ Idle
    /\ cmd' = [NoCmd EXCEPT !.mode = "target_list"]
    /\ pc' = "done"
    /\ fn' = [name |-> "format_target_list", r |-> format_target_list(load_state(state))]
    /\ exit_code' = 0
    /\ msg' = IF format_target_list(load_state(state)) = <<>> THEN "(no targets yet)" ELSE "lines"
    /\ UNCHANGED <<chains, state, cfg, clock, proofs>>

\* chain use LABEL, lines 1048-1059.
chain_use(label) ==
    /\ Idle
    /\ cmd' = [NoCmd EXCEPT !.mode = "chain_use"]
    /\ pc' = "done"
    /\ IF chain_length(label) = 0
       THEN /\ exit_code' = 1
            /\ msg' = "Unknown chain"
            /\ UNCHANGED state
       ELSE /\ exit_code' = 0
            /\ msg' = "active_chain"
            /\ state' = [state EXCEPT !.active_chain_label = label]
    /\ UNCHANGED <<chains, cfg, clock, proofs, fn>>

\* config set --max-lca-height N, lines 99-113.
config_set(max_lca_height) ==
    /\ Idle
    /\ cfg' = [cfg EXCEPT !.default_max_lca_height = max_lca_height]
    /\ cmd' = [NoCmd EXCEPT !.mode = "config_set"]
    /\ pc' = "done"
    /\ exit_code' = 0
    /\ msg' = "Saved."
    /\ UNCHANGED <<chains, state, clock, proofs, fn>>

\* The wall clock advances between the hops of a walk.
Tick ==
    /\ pc = "loop"
    /\ clock < MaxClock
    /\ clock' = clock + 1
    /\ UNCHANGED <<chains, state, cfg, pc, cmd, exit_code, msg, proofs, fn>>

\* The commands of one sequential caller: spawn, chain use and moves.
Next ==
    \/ \E d \in ChainDests, h \in ChainHeights : MoveTo(d, h)
    \/ \E v \in ChainBys, h \in ChainHeights : MoveBy(v, h)
    \/ \E d \in ChainTargets, h \in ChainHeights : MoveToward(d, h, 0)
    \/ TowardStep
    \/ DoSingleHop
    \/ SaveState
    \/ SaveStateFails
    \/ Interrupt
    \/ \E l \in Labels, k \in Keys : Spawn(l, k)
    \/ \E l \in Labels : chain_use(l)

Spec == Init /\ [][Next]_vars

\* The same caller when every command runs to completion: save_state never
\* fails and no walk is interrupted.
NextSequential ==
    \/ \E d \in ChainDests, h \in ChainHeights : MoveTo(d, h)
    \/ \E v \in ChainBys, h \in ChainHeights : MoveBy(v, h)
    \/ \E d \in ChainTargets, h \in ChainHeights : MoveToward(d, h, 0)
    \/ TowardStep
    \/ DoSingleHop
    \/ SaveState
    \/ \E l \in Labels, k \in Keys : Spawn(l, k)
    \/ \E l \in Labels : chain_use(l)

SpecSequential == Init /\ [][NextSequential]_vars

\* One move command, of any mode, from each starting point, after an
\* optional `config set`.
InitHop == \E s \in HopStarts : Home(s, MaxHeightInput)

\* No move has run yet: the run starts, or `config set` has just returned.
Fresh == pc = "idle" \/ (pc = "done" /\ cmd.mode = "config_set")

NextHop ==
    \/ /\ Fresh
       /\ \/ \E d \in DestInputs, h \in HeightOpts : MoveTo(d, h)
          \/ \E v \in ByInputs, h \in HeightOpts : MoveBy(v, h)
          \/ \E d \in DestInputs, h \in HeightOpts, m \in MaxHopsOpts : MoveToward(d, h, m)
          \/ \E h \in HeightOpts : MoveNoDest(h, 0)
          \/ \E h \in HeightOpts : MoveAmbiguous(h)
          \/ \E h \in 0..MaxHeightInput : config_set(h)
    \/ TowardStep
    \/ DoSingleHop
    \/ SaveState
    \/ SaveStateFails
    \/ Interrupt
    \/ Tick

SpecHop == InitHop /\ [][NextHop]_vars

\* One toward walk from each starting point to each target.
InitToward == \E s \in TowardStarts : Home(s, MaxHeightInput)

NextToward ==
    \/ /\ pc = "idle"
       /\ \E d \in TowardTargets, h \in TowardHeights, m \in MaxHopsOpts : MoveToward(d, h, m)
    \/ TowardStep
    \/ DoSingleHop
    \/ SaveState
    \/ Interrupt

SpecToward == InitToward /\ [][NextToward]_vars

\* The interpreter runs the next statement of a started command: pc leaves
\* the loop head, the hop and the save unless Ctrl-C is delivered first.
WalkRuns ==
    /\ pc \in {"loop", "hop", "save"}
    /\ pc' \in {"loop", "hop", "save", "done"}
    /\ pc' # pc
    /\ exit_code' \in {Running, 0, 2}

\* One toward walk followed to its end.  The command is a sequential
\* program: whenever its next statement can run, it eventually runs.
NextWalk ==
    \/ /\ pc = "idle"
       /\ \E d \in TowardTargets, h \in TowardHeights, m \in MaxHopsOpts : MoveToward(d, h, m)
    \/ TowardStep
    \/ SingleHop(MaxWalkHops)
    \/ SaveState
    \/ SaveStateFails
    \/ Interrupt

SpecWalk ==
    /\ InitToward
    /\ [][NextWalk]_vars
    /\ WF_pc(WalkRuns)

\* ------------------------------------------------- chains.py as a library
\* Coordinates a caller of the library writes into the events it builds.
AppendCoords ==
    {_coord_hex_from_xyz(0, 0, 0, 0), _coord_hex_from_xyz(1, 0, 0, 0),
     _coord_hex_from_xyz(0, 1, 0, 1)}

\* Hop events a caller can build for a chain: the previous id is the id of
\* any event of the chain, the last one or an earlier one.
AppendEvents(label) ==
    {make_hop_event(state.pubkey_hex, clock, chains[label][1].id, chains[label][i].id,
                    c1, c2, compute_movement_proof_xyz(0, 0, 0, 0, 0, 0)) :
        i \in 1..Len(chains[label]), c1 \in AppendCoords, c2 \in AppendCoords}

\* chains.append_event(label, event) called on an existing chain.
AppendCall(label, event) ==
    /\ pc = "idle"
    /\ chain_length(label) \in 1..MaxHops
    /\ chains' = append_event(chains, label, event)
    /\ fn' = [name |-> "append_event", label |-> label, event |-> event]
    /\ UNCHANGED <<state, cfg, clock, pc, cmd, exit_code, msg, proofs>>

InitAppend == Home(<<0, 0, 0, 0>>, MaxHeightInput)

NextAppend == \E e \in AppendEvents("a") : AppendCall("a", e)

SpecAppend == InitAppend /\ [][NextAppend]_vars

\* ------------------------------------------- find_lca_height at block edges
PureValues == 0..(2 ^ PureBits - 1)

\* v is the first or the last value of its 2^h-aligned block.
BlockBase(v, h) == Shl(Shr(v, h), h)
BlockEnd(v, h) == BlockBase(v, h) + Shl(1, h) - 1

\* The boundary-crossing step of _axis_step (lines 896-901) from an edge
\* value toward a target beyond the block: nxt = current +/- 1 and
\* needed = find_lca_height(current, nxt).
EscapeCall(h, current, target) ==
    /\ fn = NoCall
    /\ \/ current = BlockEnd(current, h) /\ target > current
       \/ current = BlockBase(current, h) /\ target < current
    /\ LET nxt == IF target > current THEN current + 1 ELSE current - 1
       IN  fn' = [name |-> "find_lca_height", H |-> h, current |-> current,
                  target |-> target, nxt |-> nxt,
                  needed |-> find_lca_height(current, nxt)]
    /\ UNCHANGED <<chains, state, cfg, clock, pc, cmd, exit_code, msg, proofs>>

InitLca == Home(<<0, 0, 0, 0>>, MaxHeightInput)

NextLca ==
    /\ fn = NoCall
    /\ \E h \in 1..(PureBits - 1), current \in PureValues, target \in PureValues :
          EscapeCall(h, current, target)

SpecLca == InitLca /\ [][NextLca]_vars

\* ---------------------------------------------- move with a saved target
\* Homes, coordinates and labels of the target commands of SpecTarget.
TargetStarts == {<<0, 0, 0, 0>>, <<AXIS_MAX, 1, 0, 1>>}
TargetCoords == {_coord_hex_from_xyz(x, 0, 0, p) : x \in {0, AXIS_MAX}, p \in {0, 1}}
TargetLabels == {NoLabel, Named("t1")}

\* No move has been run yet.
BeforeMove == pc = "idle" \/ (pc = "done" /\ cmd.mode \in {"target_set", "target_use"})

InitTarget == \E s \in TargetStarts : Home(s, MaxHeightInput)

\* The only moves are the ones without exactly one destination option.
NextTarget ==
    \/ /\ BeforeMove
       /\ \/ \E c \in TargetCoords, l \in TargetLabels : target_set(c, l)
          \/ \E l \in {Named("t1"), Unnamed(1)} : target_use(l)
          \/ \E h \in HeightOpts, m \in MaxHopsOpts : MoveNoDest(h, m)
          \/ \E h \in HeightOpts : MoveAmbiguous(h)
    \/ TowardStep
    \/ SingleHop(MaxWalkHops)
    \/ SaveState

SpecTarget == InitTarget /\ [][NextTarget]_vars

\* ------------------------------------------ the target commands on their own
\* target set, target use and target list in any order.
StateLabels == TargetLabels \cup {Unnamed(1), Unnamed(2)}

NextState ==
    \/ \E c \in TargetCoords, l \in StateLabels : target_set(c, l)
    \/ \E l \in {Named("t1"), Unnamed(1)} : target_use(l)
    \/ target_list

SpecState == InitTarget /\ [][NextState]_vars

\* -------------------------------------- two move invocations at the same time
\* Two processes run `move --to` in one home.  pc and cmd hold one entry per
\* process; cmd[p].c is the process's locals and cmd[p].st the state object it
\* loaded at line 737.  Nothing in cli.py, chains.py or state.py takes a lock,
\* so the steps of the two processes interleave freely.
Procs == {1, 2}
RaceDests == {Xyz3(1, 0, 0), Xyz3(0, 1, 0), Xyz3(1, 1, 0)}

InitRace ==
    LET c0 == _coord_hex_from_xyz(0, 0, 0, 0)
    IN  /\ chains = [l \in Labels |-> IF l = "a" THEN <<make_spawn_event(c0, 0, c0)>> ELSE <<>>]
        /\ state = CyberspaceState("k0", c0, c0, "a", <<>>, NoLabel)
        /\ cfg = [default_max_lca_height |-> MaxHeightInput]
        /\ clock = 0
        /\ pc = [p \in Procs |-> "idle"]
        /\ cmd = [p \in Procs |-> [c |-> NoCmd, st |-> state]]
        /\ exit_code = 0
        /\ msg = ""
        /\ proofs = 0
        /\ fn = NoCall

\* move --to DEST in process p, lines 737-752 and 942-955: the state file and
\* the chain are read and the call of _do_single_hop is made.
RaceMoveTo(p, to) ==
    /\ pc[p] \in {"idle", "done"}
    /\ proofs < MaxHops
    /\ read_events(state.active_chain_label) # <<>>
    /\ LET c == MoveProlog("to", NoHeight)
           dest == parse_destination_xyz_or_coord(to, c.plane1)
       IN  cmd' = [cmd EXCEPT ![p] =
                     [c |-> [c EXCEPT !.x2 = dest.x, !.y2 = dest.y, !.z2 = dest.z,
                                      !.plane2 = dest.plane, !.limit = c.eff],
                      st |-> load_state(state)]]
    /\ pc' = [pc EXCEPT ![p] = "hop"]
    /\ exit_code' = Running
    /\ msg' = ""
    /\ UNCHANGED <<chains, state, cfg, clock, proofs, fn>>

\* _do_single_hop in process p, lines 776-829.
RaceHop(p) ==
    /\ pc[p] = "hop"
    /\ LET c == cmd[p].c
           st == cmd[p].st
       IN  IF \/ c.plane2 \notin {0, 1}
              \/ ~(/\ 0 <= c.x2 /\ c.x2 <= AXIS_MAX
                   /\ 0 <= c.y2 /\ c.y2 <= AXIS_MAX
                   /\ 0 <= c.z2 /\ c.z2 <= AXIS_MAX)
              \/ Max3(find_lca_height(c.x1, c.x2), find_lca_height(c.y1, c.y2),
                      find_lca_height(c.z1, c.z2)) > c.limit
           THEN /\ pc' = [pc EXCEPT ![p] = "done"]
                /\ exit_code' = 2
                /\ msg' = "refused"
                /\ UNCHANGED <<chains, cmd, proofs>>
           ELSE
             LET coord_hex == _coord_hex_from_xyz(c.x2, c.y2, c.z2, c.plane2)
                 proof == compute_movement_proof_xyz(c.x1, c.y1, c.z1, c.x2, c.y2, c.z2)
                 hop_event == make_hop_event(st.pubkey_hex, clock, c.genesis_id,
                                             c.prev_event_id, st.coord_hex,
                                             coord_hex, proof)
             IN  /\ proofs' = proofs + 1
                 /\ chains' = append_event(chains, c.label, hop_event)
                 /\ cmd' = [cmd EXCEPT ![p].c = [c EXCEPT !.coord_hex = coord_hex,
                                                          !.event_id = hop_event.id]]
                 /\ pc' = [pc EXCEPT ![p] = "save"]
                 /\ msg' = "appended"
                 /\ UNCHANGED exit_code
    /\ UNCHANGED <<state, cfg, clock, fn>>

\* Lines 831-841 in process p: the loaded state object is saved with the new
\* coordinate.
RaceSave(p) ==
    /\ pc[p] = "save"
    /\ state' = save_state([cmd[p].st EXCEPT !.coord_hex = cmd[p].c.coord_hex])
    /\ pc' = [pc EXCEPT ![p] = "done"]
    /\ exit_code' = 0
    /\ msg' = "Moved."
    /\ UNCHANGED <<chains, cmd, cfg, clock, proofs, fn>>

NextRace ==
    \/ \E p \in Procs, to \in RaceDests : RaceMoveTo(p, to)
    \/ \E p \in Procs : RaceHop(p)
    \/ \E p \in Procs : RaceSave(p)

SpecRace == InitRace /\ [][NextRace]_vars

\* ------------------------------------------ moves among the other commands
\* Coordinates of the targets saved in SpecFrame.
FrameCoords == {_coord_hex_from_xyz(0, 0, 0, 1), _coord_hex_from_xyz(AXIS_MAX, 0, 0, 0)}

\* No move has been run yet: only spawn, chain use and target set have.
Preparing ==
    pc = "idle" \/ (pc = "done" /\ cmd.mode \in {"spawn", "chain_use", "target_set"})

\* A home is prepared (chains spawned and selected, targets saved) and then
\* moves of every kind are run in it.
NextFrame ==
    \/ /\ Preparing
       /\ \/ \E l \in Labels, k \in Keys : Spawn(l, k)
          \/ \E l \in Labels : chain_use(l)
          \/ \E c \in FrameCoords, l \in TargetLabels : target_set(c, l)
    \/ \E d \in ChainDests, h \in ChainHeights : MoveTo(d, h)
    \/ \E v \in ChainBys, h \in ChainHeights : MoveBy(v, h)
    \/ \E d \in ChainTargets, h \in ChainHeights : MoveToward(d, h, 0)
    \/ \E h \in ChainHeights : MoveNoDest(h, 0)
    \/ \E h \in ChainHeights : MoveAmbiguous(h)
    \/ TowardStep
    \/ DoSingleHop
    \/ SaveState
    \/ SaveStateFails
    \/ Interrupt

SpecFrame == Init /\ [][NextFrame]_vars

\* ------------------------------- the Cantor roots as functions of their inputs
\* Bases and heights of compute_subtree_cantor, the limits (the default
\* among them), and the axis values of the proofs.
CantorBases == 0..MaxCantorBase
CantorHeights == (-1)..MaxCantorHeight
CantorLimits == (0..MaxCantorHeight) \cup {DEFAULT_MAX_COMPUTE_HEIGHT}
CantorValues == 0..(2 ^ MaxCantorHeight - 1)
CantorEnds == {0, 2 ^ MaxCantorHeight - 1}
PairInputs == (-2)..(2 ^ MaxCantorHeight - 1)

\* cantor_pair(a, b), cantor.py lines 6-8: the function has no raise
\* statement, so every call returns.
PairCall(a, b) ==
    /\ fn = NoCall
    /\ fn' = [name |-> "cantor_pair", a |-> a, b |-> b,
              r |-> [err |-> "ok", value |-> cantor_pair(a, b)]]
    /\ UNCHANGED <<chains, state, cfg, clock, pc, cmd, exit_code, msg, proofs>>

SubtreeCall(base, height, max_compute_height) ==
    /\ fn = NoCall
    /\ fn' = [name |-> "compute_subtree_cantor", base |-> base, height |-> height,
              max_compute_height |-> max_compute_height,
              r |-> compute_subtree_cantor(base, height, max_compute_height)]
    /\ UNCHANGED <<chains, state, cfg, clock, pc, cmd, exit_code, msg, proofs>>

AxisCall(v1, v2, max_compute_height) ==
    /\ fn = NoCall
    /\ fn' = [name |-> "compute_axis_cantor", v1 |-> v1, v2 |-> v2,
              max_compute_height |-> max_compute_height,
              r |-> compute_axis_cantor_int(v1, v2, max_compute_height)]
    /\ UNCHANGED <<chains, state, cfg, clock, pc, cmd, exit_code, msg, proofs>>

ProofCall(x1, y1, z1, x2, y2, z2, max_compute_height) ==
    /\ fn = NoCall
    /\ fn' = [name |-> "compute_movement_proof_xyz",
              from |-> <<x1, y1, z1>>, to |-> <<x2, y2, z2>>,
              max_compute_height |-> max_compute_height,
              r |-> compute_movement_proof_xyz_int(x1, y1, z1, x2, y2, z2, max_compute_height)]
    /\ UNCHANGED <<chains, state, cfg, clock, pc, cmd, exit_code, msg, proofs>>

NextCantor ==
    /\ fn = NoCall
    /\ \/ \E b \in CantorBases, h \in CantorHeights, m \in CantorLimits : SubtreeCall(b, h, m)
       \/ \E v1 \in CantorValues, v2 \in CantorValues, m \in CantorLimits : AxisCall(v1, v2, m)
       \/ \E x1 \in CantorValues, x2 \in CantorValues, y1 \in CantorEnds, y2 \in CantorEnds, z1 \in CantorEnds, z2 \in CantorEnds, m \in CantorLimits : ProofCall(x1, y1, z1, x2, y2, z2, m)
       \/ \E a \in PairInputs, b \in PairInputs : PairCall(a, b)

SpecCantor == InitLca /\ [][NextCantor]_vars

\* -------------------------------- find_lca_height as a function of its inputs
LcaCall(v1, v2) ==
    /\ fn = NoCall
    /\ fn' = [name |-> "lca", v1 |-> v1, v2 |-> v2, r |-> find_lca_height(v1, v2)]
    /\ UNCHANGED <<chains, state, cfg, clock, pc, cmd, exit_code, msg, proofs>>

NextPairs ==
    /\ fn = NoCall
    /\ \E v1 \in PureValues, v2 \in PureValues : LcaCall(v1, v2)

SpecPairs == InitLca /\ [][NextPairs]_vars

\* ------------------------------------- coords.py as functions of their inputs
\* Axis values of the range and the first value above it, planes and their
\* first non-bit value, and every coordinate of COORD_BITS bits.
AxisInputs == 0..AXIS_UNITS
PlaneInputs == 0..2
CoordInputs == 0..(2 ^ COORD_BITS - 1)

EncodeCall(x, y, z, plane) ==
    /\ fn = NoCall
    /\ fn' = [name |-> "xyz_to_coord", x |-> x, y |-> y, z |-> z, plane |-> plane,
              r |-> xyz_to_coord(x, y, z, plane)]
    /\ UNCHANGED <<chains, state, cfg, clock, pc, cmd, exit_code, msg, proofs>>

DecodeCall(coord) ==
    /\ fn = NoCall
    /\ fn' = [name |-> "coord_to_xyz", coord |-> coord, r |-> coord_to_xyz(coord)]
    /\ UNCHANGED <<chains, state, cfg, clock, pc, cmd, exit_code, msg, proofs>>

InitCoords == Home(<<0, 0, 0, 0>>, MaxHeightInput)

NextCoords ==
    /\ fn = NoCall
    /\ \/ \E x \in AxisInputs, y \in AxisInputs, z \in AxisInputs, plane \in PlaneInputs :
             EncodeCall(x, y, z, plane)
       \/ \E coord \in CoordInputs : DecodeCall(coord)

SpecCoords == InitCoords /\ [][NextCoords]_vars

\* --------------------------------- normalize_hex_32 as a function of its input
\* Every text of at most MaxTextLen characters over digits, an upper-case
\* digit, a letter that is no digit, x, underscore, sign and blank.
TextChars == {"0", "1", "A", "g", "x", "_", "-", " "}
TextInputs == UNION {[1..n -> TextChars] : n \in 0..MaxTextLen}

NormalizeCall(text) ==
    /\ fn = NoCall
    /\ fn' = [name |-> "normalize_hex_32", text |-> text, r |-> normalize_hex_32(text)]
    /\ UNCHANGED <<chains, state, cfg, clock, pc, cmd, exit_code, msg, proofs>>

NextText ==
    /\ fn = NoCall
    /\ \E text \in TextInputs : NormalizeCall(text)

SpecText == InitCoords /\ [][NextText]_vars

\* ----------------------- the longitude wrap and the sin/cos range reduction
\* Longitudes two turns either side of zero, radians three turns either side.
LonInputs == (-2 * FULL_TURN_DEG)..(2 * FULL_TURN_DEG)
AngleInputs == (-3 * TWO_PI)..(3 * TWO_PI)

WrapCall(lon_deg) ==
    /\ fn = NoCall
    /\ fn' = [name |-> "_wrap_lon_deg", lon_deg |-> lon_deg, r |-> _wrap_lon_deg(lon_deg)]
    /\ UNCHANGED <<chains, state, cfg, clock, pc, cmd, exit_code, msg, proofs>>

SinCosCall(x) ==
    /\ fn = NoCall
    /\ fn' = [name |-> "_sin_cos_decimal", x |-> x, r |-> _sin_cos_decimal(x)]
    /\ UNCHANGED <<chains, state, cfg, clock, pc, cmd, exit_code, msg, proofs>>

NextAngles ==
    /\ fn = NoCall
    /\ \/ \E lon_deg \in LonInputs : WrapCall(lon_deg)
       \/ \E x \in AngleInputs : SinCosCall(x)

SpecAngles == InitCoords /\ [][NextAngles]_vars

\* ------------------------------ gps_to_dataspace_coord and the caller's context
\* ECEF metres across the axis and past both ends, and every precision the
\* caller's decimal context may have up to DECIMAL_PREC.
EcefStep == 67
EcefInputs == {m \in (-600)..600 : m % EcefStep = 0}
CallerPrecs == 1..DECIMAL_PREC

GpsCall(ecef_m, caller_prec) ==
    /\ fn = NoCall
    /\ fn' = [name |-> "gps_to_dataspace_coord", ecef_m |-> ecef_m, caller_prec |-> caller_prec,
              r |-> gps_to_dataspace_coord(ecef_m, caller_prec)]
    /\ UNCHANGED <<chains, state, cfg, clock, pc, cmd, exit_code, msg, proofs>>

NextGps ==
    /\ fn = NoCall
    /\ \E x_m \in EcefInputs, y_m \in EcefInputs, z_m \in EcefInputs, caller_prec \in CallerPrecs :
          GpsCall(<<x_m, y_m, z_m>>, caller_prec)

SpecGps == InitCoords /\ [][NextGps]_vars

\* ------------------------------------- toward.py as a function of its inputs
\* Axis values and bounds handed to choose_next_axis_value_toward: current
\* values of the axis range and two above it, targets from one below the
\* range, and every bound up to one past the axis width.
ChooseCurrents == 0..(AXIS_UNITS + 1)
ChooseTargets == (-1)..(AXIS_UNITS + 1)
ChooseHeights == 0..(AXIS_BITS + 1)

ChooseCall(current, target, max_lca_height) ==
    /\ fn = NoCall
    /\ fn' = [name |-> "choose_next_axis_value_toward",
              current |-> current, target |-> target, H |-> max_lca_height,
              r |-> choose_next_axis_value_toward(current, target, max_lca_height)]
    /\ UNCHANGED <<chains, state, cfg, clock, pc, cmd, exit_code, msg, proofs>>

InitChoose == Home(<<0, 0, 0, 0>>, MaxHeightInput)

NextChoose ==
    /\ fn = NoCall
    /\ \E current \in ChooseCurrents, target \in ChooseTargets, h \in ChooseHeights :
          ChooseCall(current, target, h)

SpecChoose == InitChoose /\ [][NextChoose]_vars

\* ================================================================ claims

\* The hop events of a chain log: every event after the first.
HopIndex(l) == 2..Len(chains[l])

\* C1: in every chain, every hop event e_i (i >= 1) names the id of e_{i-1}
\* in its "previous" e-tag and the id of e_0 in its "genesis" e-tag.
C1_IdLinkage ==
    \A l \in Labels : \A i \in HopIndex(l) :
        /\ IsHop(chains[l][i])
        /\ ETag(chains[l][i], "previous") = chains[l][i - 1].id
        /\ ETag(chains[l][i], "genesis") = chains[l][1].id

\* A chain holds two hops, the second one following a hop.
C1_Witness ==
    \E l \in Labels : Len(chains[l]) >= 3 /\ pc = "done"

\* C2: in every chain, the previous-coordinate tag (c) of every hop event
\* e_i (i >= 1) equals the new-coordinate tag (C) of e_{i-1}.
C2_CoordLinkage ==
    \A l \in Labels : \A i \in HopIndex(l) :
        _get_tag(chains[l][i], "c") = _get_tag(chains[l][i - 1], "C")

\* The event with the given id is in the chain log.
InChain(ch, label, id) ==
    \E i \in 1..Len(ch[label]) : ch[label][i].id = id

\* C3: whenever move stops during or after a hop attempt, either the hop
\* event is in the active chain and the persisted coordinate is that hop's
\* new coordinate, or the event is not in the chain and the persisted
\* coordinate is the one from before the hop.
C3_HopAtomic ==
    [][(pc \in {"hop", "save"} /\ pc' = "done") =>
          \/ /\ InChain(chains', cmd.label, cmd.event_id)
             /\ state'.coord_hex = cmd.coord_hex
          \/ /\ ~InChain(chains', cmd.label, cmd.event_id)
             /\ state'.coord_hex = state.coord_hex]_vars

\* C4: an append of an event whose "previous" id differs from the id of
\* the chain's last event leaves the chain unchanged.
C4_AppendChecked ==
    [][IF fn'.name = "append_event" /\ chains' # chains
       THEN LET events == chains[fn'.label]
            IN  ETag(fn'.event, "previous") = events[Len(events)].id
       ELSE TRUE]_vars

\* The limit a single hop is held to: the option when given, otherwise the
\* persisted config default.
EffectiveLimit ==
    IF cmd.max_lca_height.given THEN cmd.max_lca_height.v
    ELSE cfg.default_max_lca_height

\* Some axis of the requested hop has an LCA height above n.
AxisAbove(n) ==
    \/ find_lca_height(cmd.x1, cmd.x2) > n
    \/ find_lca_height(cmd.y1, cmd.y2) > n
    \/ find_lca_height(cmd.z1, cmd.z2) > n

InRange(v) == 0 <= v /\ v <= AXIS_MAX

\* C5: a --to/--by hop to a destination inside the axis range whose LCA
\* height on some axis exceeds the effective max_lca_height (the option
\* when given, otherwise the config default) stops with a non-zero exit, no
\* proof computed, no event appended and the state coordinate unchanged.
C5_TooLargeRejected ==
    [][(/\ pc = "hop"
        /\ cmd.mode \in {"to", "by"}
        /\ InRange(cmd.x2) /\ InRange(cmd.y2) /\ InRange(cmd.z2)
        /\ AxisAbove(EffectiveLimit))
       => (/\ pc' = "done"
           /\ exit_code' > 0
           /\ proofs' = proofs
           /\ chains' = chains
           /\ state' = state)]_vars

\* A --to/--by hop one axis of which is above the limit has been refused.
C5_Witness ==
    /\ pc = "done"
    /\ cmd.mode \in {"to", "by"}
    /\ msg = "Move is too large for a single hop"
    /\ exit_code = 2
    /\ proofs = 0

\* The destination the running move was given.
DestOutOfDomain ==
    IF cmd.mode = "toward"
    THEN ~(InRange(cmd.tx) /\ InRange(cmd.ty) /\ InRange(cmd.tz))
    ELSE ~(InRange(cmd.x2) /\ InRange(cmd.y2) /\ InRange(cmd.z2))

\* C6: a move (--to, --by or --toward) whose destination has an axis value
\* outside [0, AXIS_MAX] appends no event.
C6_OutOfDomainRejected ==
    ~(pc = "save" /\ DestOutOfDomain)

\* The previous and the new position of a hop event, decoded from its tags.
HopFrom(event) == coord_to_xyz(FromHex(_get_tag(event, "c")))
HopTo(event) == coord_to_xyz(FromHex(_get_tag(event, "C")))

\* C7: every hop event whose new coordinate differs in plane from its
\* previous coordinate has the same x, y and z in both.
C7_PlaneChangeKeepsXyz ==
    \A l \in Labels : \A i \in HopIndex(l) :
        LET a == HopFrom(chains[l][i])
            b == HopTo(chains[l][i])
        IN  a.plane # b.plane => <<a.x, a.y, a.z>> = <<b.x, b.y, b.z>>

\* The per-axis rule reports "cannot progress" for the axis.
Pinned(current, target) ==
    choose_next_axis_value_toward(current, target, cmd.eff).err = "cannot progress from"

\* The adjacent value on the target's side.
StepToward(current, target) ==
    IF target > current THEN current + 1 ELSE current - 1

\* The one-step move of a pinned axis leaves the axis range or needs a
\* height above H + 1.
EscapeFails(current, target) ==
    /\ Pinned(current, target)
    /\ IF InRange(StepToward(current, target))
       THEN find_lca_height(current, StepToward(current, target)) > cmd.eff + 1
       ELSE TRUE

\* The toward loop is about to choose a hop that changes x, y or z.
Walking ==
    /\ pc = "loop"
    /\ <<cmd.x1, cmd.y1, cmd.z1>> # <<cmd.tx, cmd.ty, cmd.tz>>
    /\ ~(cmd.max_hops # 0 /\ cmd.hops >= cmd.max_hops)

AnyPinned ==
    Pinned(cmd.x1, cmd.tx) \/ Pinned(cmd.y1, cmd.ty) \/ Pinned(cmd.z1, cmd.tz)

AnyEscapeFails ==
    \/ EscapeFails(cmd.x1, cmd.tx)
    \/ EscapeFails(cmd.y1, cmd.ty)
    \/ EscapeFails(cmd.z1, cmd.tz)

\* The step is taken by the walk itself, not by an interruption or the clock.
WalkStep == pc' # pc /\ exit_code' # 130

\* C8: in a toward walk with bound H, when the per-axis rule reports "cannot
\* progress" for an axis, the next hop moves that axis by exactly one toward
\* the target under the limit H + 1 and is appended; a hop with no such axis
\* is limited to H; and when the one-step move needs a height above H + 1 or
\* leaves the axis range, the walk stops with exit code 2 and nothing is
\* appended.
C8_BoundaryEscape ==
    [][/\ (Walking /\ WalkStep /\ AnyEscapeFails)
          => (pc' = "done" /\ exit_code' = 2 /\ chains' = chains /\ state' = state)
       /\ (Walking /\ WalkStep /\ AnyPinned /\ ~AnyEscapeFails)
          => /\ pc' = "hop"
             /\ cmd'.limit = cmd.eff + 1
             /\ Pinned(cmd.x1, cmd.tx) => cmd'.x2 = StepToward(cmd.x1, cmd.tx)
             /\ Pinned(cmd.y1, cmd.ty) => cmd'.y2 = StepToward(cmd.y1, cmd.ty)
             /\ Pinned(cmd.z1, cmd.tz) => cmd'.z2 = StepToward(cmd.z1, cmd.tz)
       /\ (Walking /\ WalkStep /\ ~AnyPinned /\ pc' = "hop")
          => cmd'.limit = cmd.eff
       /\ (pc = "hop" /\ WalkStep /\ (cmd.bx \/ cmd.by \/ cmd.bz))
          => (pc' = "save" /\ chain_length(cmd.label)' = chain_length(cmd.label) + 1)]_vars

\* The last event of the active chain.
LastEvent == chains[cmd.label][Len(chains[cmd.label])]

\* The walk is choosing a hop limited to H right after a boundary-crossing
\* hop on X, of height H + 1, was appended.
C8_Witness ==
    /\ pc = "hop"
    /\ cmd.mode = "toward"
    /\ cmd.hops >= 1
    /\ cmd.limit = cmd.eff
    /\ IsHop(LastEvent)
    /\ _get_tag(LastEvent, "proof")[1][2] = cmd.eff + 1
    /\ Abs(HopTo(LastEvent).x - HopFrom(LastEvent).x) = 1

\* C9 (amended): the step from a value at the edge of its 2^H-aligned block
\* to the adjacent value outside the block has LCA height at least H + 1,
\* and exactly H + 1 when both values lie in one 2^(H+1)-aligned block.
C9_EscapeHeight ==
    fn.name = "find_lca_height" =>
        /\ fn.needed >= fn.H + 1
        /\ (fn.needed = fn.H + 1) <=> (Shr(fn.current, fn.H + 1) = Shr(fn.nxt, fn.H + 1))

\* An edge value whose crossing has height H + 1, and one below the block.
C9_Witness ==
    /\ fn.name = "find_lca_height"
    /\ fn.H = 2
    /\ fn.target < fn.current
    /\ fn.needed = fn.H + 1

\* C9 as stated: the crossing step has LCA height exactly H + 1.
C9_EscapeExactly ==
    fn.name = "find_lca_height" => fn.needed = fn.H + 1

\* C10: every hop a toward walk appends leaves each axis no farther from
\* the target than before, and nearer on every axis that was not at its
\* target value.
C10_TowardMonotone ==
    (pc = "save" /\ cmd.mode = "toward") =>
        LET a == HopFrom(LastEvent)
            b == HopTo(LastEvent)
        IN  /\ Abs(cmd.tx - b.x) <= Abs(cmd.tx - a.x)
            /\ Abs(cmd.ty - b.y) <= Abs(cmd.ty - a.y)
            /\ Abs(cmd.tz - b.z) <= Abs(cmd.tz - a.z)
            /\ a.x # cmd.tx => Abs(cmd.tx - b.x) < Abs(cmd.tx - a.x)
            /\ a.y # cmd.ty => Abs(cmd.ty - b.y) < Abs(cmd.ty - a.y)
            /\ a.z # cmd.tz => Abs(cmd.tz - b.z) < Abs(cmd.tz - a.z)

\* A second hop of a walk has been appended with X and Y both away from the
\* target and Z at it.
C10_Witness ==
    /\ pc = "save"
    /\ cmd.mode = "toward"
    /\ cmd.hops >= 1
    /\ cmd.x1 # cmd.tx
    /\ cmd.y1 # cmd.ty
    /\ cmd.z1 = cmd.tz

\* The position the state file holds.
StateXyz(st) == coord_to_xyz(FromHex(st.coord_hex))

\* C11: a toward walk with max_hops = 0 toward a target inside the axis
\* range always stops, reporting arrival or with a non-zero exit code, and
\* never starts a hop after MaxWalkHops proofs; and whenever a walk reports
\* arrival the persisted coordinate is the target in x, y, z and plane.
C11_WalkTerminates ==
    /\ [](pc = "hop" => proofs < MaxWalkHops)
    /\ [](((/\ pc = "loop"
            /\ cmd.max_hops = 0
            /\ InRange(cmd.tx) /\ InRange(cmd.ty) /\ InRange(cmd.tz))
           => <>(pc = "done" /\ (msg = "Arrived." \/ exit_code # 0))))
    /\ [][(pc = "loop" /\ msg' = "Arrived.")
          => (LET p == StateXyz(state')
              IN  <<p.x, p.y, p.z, p.plane>> = <<cmd.tx, cmd.ty, cmd.tz, cmd.tplane>>)]_vars

\* A walk of more hops than one run of Spec computes, the last a plane
\* switch, has arrived.
C11_Witness ==
    /\ pc = "done"
    /\ msg = "Arrived."
    /\ cmd.mode = "toward"
    /\ proofs > MaxHops
    /\ StateXyz(state).plane = 1

\* target clamped into the 2^h-aligned block of current, by arithmetic.
ClampIntoBlock(target, current, h) ==
    LET lo == current - (current % (2 ^ h))
        hi == lo + (2 ^ h) - 1
    IN  IF target < lo THEN lo ELSE IF target > hi THEN hi ELSE target

\* C12: for current C, target T # C and bound H >= 1, a returned next value
\* N is T clamped into C's 2^H-aligned block, LCA_height(C, N) <= H and no
\* value of the block is closer to T than N; the call fails with "cannot
\* progress" exactly when the clamped value is C.
C12_ClampedStep ==
    (/\ fn.name = "choose_next_axis_value_toward"
     /\ fn.current # fn.target
     /\ fn.H >= 1)
    => LET lo == fn.current - (fn.current % (2 ^ fn.H))
           clamped == ClampIntoBlock(fn.target, fn.current, fn.H)
       IN  /\ fn.r.err = "ok" =>
                /\ fn.r.next = clamped
                /\ fn.r.lca_height = find_lca_height(fn.current, fn.r.next)
                /\ fn.r.lca_height <= fn.H
                /\ \A v \in lo..(lo + (2 ^ fn.H) - 1) :
                      Abs(fn.target - fn.r.next) <= Abs(fn.target - v)
           /\ (fn.r.err = "cannot progress from") <=> (clamped = fn.current)

\* A call that returned the edge of the block, short of the target.
C12_Witness ==
    /\ fn.name = "choose_next_axis_value_toward"
    /\ fn.H >= 1
    /\ fn.r.err = "ok"
    /\ fn.r.next # fn.target
    /\ fn.r.next < fn.current

\* The state file names an active target, and that target's coordinate.
HasActiveTarget(st) ==
    /\ st.active_target_label # NoLabel
    /\ \E i \in 1..Len(st.targets) : st.targets[i].label = st.active_target_label

ActiveTargetHex(st) ==
    LET i == CHOOSE j \in 1..Len(st.targets) : st.targets[j].label = st.active_target_label
    IN  st.targets[i].coord_hex

ActiveTargetXyz(st) == coord_to_xyz(FromHex(ActiveTargetHex(st)))

MoveStep ==
    \/ pc \in {"loop", "hop", "save"}
    \/ Idle /\ cmd'.mode \in {"to", "by", "toward", "nodest", "ambiguous"}

IsPrefix(s, t) == Len(s) <= Len(t) /\ SubSeq(t, 1, Len(s)) = s

C15_ProofMatchesTags ==
    \A l \in Labels : \A i \in HopIndex(l) :
        LET a == HopFrom(chains[l][i])
            b == HopTo(chains[l][i])
        IN  _get_tag(chains[l][i], "proof")
              = compute_movement_proof_xyz(a.x, a.y, a.z, b.x, b.y, b.z)

\* A hop that moved on two axes at once, appended after a chain switch left
\* the state's coordinate different from the chain's last event.
C15_Witness ==
    \E l \in Labels : \E i \in HopIndex(l) :
        LET e == chains[l][i]
        IN  /\ _get_tag(e, "c") # _get_tag(chains[l][i - 1], "C")
            /\ HopFrom(e).x # HopTo(e).x
            /\ HopFrom(e).y # HopTo(e).y

\* C16: decoding the encoding of x, y, z of the axis range and a plane of
\* {0, 1} gives x, y, z and the plane back, and encoding the decoding of a
\* coordinate of COORD_BITS bits gives the coordinate back.
C16_CoordRoundTrip ==
    /\ (/\ fn.name = "xyz_to_coord"
        /\ InRange(fn.x) /\ InRange(fn.y) /\ InRange(fn.z)
        /\ fn.plane \in {0, 1})
       => coord_to_xyz(fn.r) = [x |-> fn.x, y |-> fn.y, z |-> fn.z, plane |-> fn.plane]
    /\ fn.name = "coord_to_xyz"
       => xyz_to_coord(fn.r.x, fn.r.y, fn.r.z, fn.r.plane) = fn.coord

\* The coordinate with every bit set has been decoded to the largest value
\* of each axis.
C16_Witness ==
    /\ fn.name = "coord_to_xyz"
    /\ fn.coord = 2 ^ COORD_BITS - 1
    /\ fn.r = [x |-> AXIS_MAX, y |-> AXIS_MAX, z |-> AXIS_MAX, plane |-> 1]

\* C17: in xyz_to_coord(x, y, z, plane), bit 0 is the low bit of the plane,
\* bits 1 + 3i, 2 + 3i and 3 + 3i are bit i of z, y and x for every i below
\* AXIS_BITS, and no higher bit is set.
C17_BitLayout ==
    fn.name = "xyz_to_coord"
    => /\ Bit(fn.r, 0) = fn.plane % 2
       /\ \A i \in 0..(AXIS_BITS - 1) :
            /\ Bit(fn.r, 1 + 3 * i) = Bit(fn.z, i)
            /\ Bit(fn.r, 2 + 3 * i) = Bit(fn.y, i)
            /\ Bit(fn.r, 3 + 3 * i) = Bit(fn.x, i)
       /\ 0 <= fn.r
       /\ fn.r < 2 ^ COORD_BITS

\* x = 1 alone sets bit 3, with a plane argument whose low bit is 0.
C17_Witness ==
    /\ fn.name = "xyz_to_coord"
    /\ <<fn.x, fn.y, fn.z, fn.plane>> = <<1, 0, 0, 2>>
    /\ fn.r = 8

\* a XOR b and bit_length, from the binary digits of the PureBits-bit values.
RECURSIVE XorDigits(_, _, _)
XorDigits(a, b, i) ==
    IF i >= PureBits THEN 0
    ELSE (IF Bit(a, i) = Bit(b, i) THEN 0 ELSE 2 ^ i) + XorDigits(a, b, i + 1)

DigitsOf(n) == CHOOSE k \in 0..PureBits : n < 2 ^ k /\ \A j \in 0..(k - 1) : n >= 2 ^ j

\* The smallest h >= 0 with a >> h = b >> h.
SmallestCommonShift(a, b) ==
    CHOOSE h \in 0..PureBits :
        /\ a \div (2 ^ h) = b \div (2 ^ h)
        /\ \A k \in 0..(h - 1) : a \div (2 ^ k) # b \div (2 ^ k)

\* C18: find_lca_height(a, b) is 0 exactly when a = b, is the bit length of
\* a XOR b otherwise, and is always the smallest h >= 0 with a >> h = b >> h.
C18_LcaHeight ==
    fn.name = "lca"
    => /\ (fn.r = 0) <=> (fn.v1 = fn.v2)
       /\ fn.v1 # fn.v2 => fn.r = DigitsOf(XorDigits(fn.v1, fn.v2, 0))
       /\ fn.r = SmallestCommonShift(fn.v1, fn.v2)

\* Two neighbours that differ in their two low bits: the height is 2.
C18_Witness ==
    /\ fn.name = "lca"
    /\ fn.v1 = 5
    /\ fn.v2 = 6
    /\ fn.r = 2

\* root(base, h) = pair(root(base, h - 1), root(base + 2^(h - 1), h - 1)).
RECURSIVE Root(_, _)
Root(base, h) ==
    IF h = 0 THEN base
    ELSE cantor_pair(Root(base, h - 1), Root(base + 2 ^ (h - 1), h - 1))

\* C19: a returned compute_subtree_cantor(base, h) is base when h = 0 and,
\* for h >= 1, the value left after h pairing rounds over the 2^h leaves
\* base..base + 2^h - 1, which is root(base, h) of the recursion.
C19_SubtreeRoot ==
    (fn.name = "compute_subtree_cantor" /\ fn.r.err = "ok")
    => /\ fn.height = 0 => fn.r.value = fn.base
       /\ fn.height >= 1 =>
            /\ fn.r.leaves = [i \in 1..(2 ^ fn.height) |-> fn.base + i - 1]
            /\ fn.r.value = Root(fn.base, fn.height)

\* The root of the four leaves 1..4: pair(pair(1, 2), pair(3, 4)) = 852.
C19_Witness ==
    /\ fn.name = "compute_subtree_cantor"
    /\ fn.base = 1
    /\ fn.height = 2
    /\ fn.r.err = "ok"
    /\ fn.r.value = 852

\* C20: compute_axis_cantor fails, with no leaf list built, when the LCA
\* height of its axis exceeds max_compute_height; compute_movement_proof_xyz
\* fails, returns no proof, and has built no leaf list of more than
\* 2^max_compute_height leaves, when the height of any axis does.
C20_RefusesHighAxis ==
    /\ (/\ fn.name = "compute_axis_cantor"
        /\ find_lca_height(fn.v1, fn.v2) > fn.max_compute_height)
       => /\ fn.r.err # "ok"
          /\ fn.r.leaves = <<>>
    /\ (/\ fn.name = "compute_movement_proof_xyz"
        /\ \E a \in 1..3 : find_lca_height(fn.from[a], fn.to[a]) > fn.max_compute_height)
       => /\ fn.r.err # "ok"
          /\ fn.r.proof = <<>>
          /\ \A k \in 1..Len(fn.r.built) :
                Len(fn.r.built[k]) <= 2 ^ fn.max_compute_height

\* A proof refused for its z axis after the x root had been computed.
C20_Witness ==
    /\ fn.name = "compute_movement_proof_xyz"
    /\ fn.r.err = "exceeds max_compute_height"
    /\ Len(fn.r.built) = 2
    /\ Len(fn.r.built[1]) = 2
    /\ find_lca_height(fn.from[3], fn.to[3]) > fn.max_compute_height

\* C21: cantor_pair(a, b) fails when a or b is negative, and returns
\* (a + b)(a + b + 1)/2 + b when neither is.
C21_PairRejectsNegative ==
    fn.name = "cantor_pair"
    => IF fn.a < 0 \/ fn.b < 0
       THEN fn.r.err # "ok"
       ELSE /\ fn.r.err = "ok"
            /\ 2 * (fn.r.value - fn.b) = (fn.a + fn.b) * (fn.a + fn.b + 1)

\* C22: normalize_hex_32 either raises or returns HEX_LEN lower-case hex
\* digits, the text less surrounding blanks and one 0x, zero-padded on the
\* left; it raises when that text is empty, too long or has a non-hex
\* character.
TextCore(text) == removeprefix(lower(strip(text)), <<"0", "x">>)

C22_NormalizeOrRaise ==
    fn.name = "normalize_hex_32"
    => LET core == TextCore(fn.text)
           bad == \/ core = <<>>
                  \/ Len(core) > HEX_LEN
                  \/ \E i \in 1..Len(core) : core[i] \notin HexDigits
       IN  /\ fn.r.err \in {"ok", "ValueError"}
           /\ bad => fn.r.err = "ValueError"
           /\ fn.r.err = "ok"
              => /\ Len(fn.r.value) = HEX_LEN
                 /\ \A i \in 1..HEX_LEN : fn.r.value[i] \in HexDigits
                 /\ SubSeq(fn.r.value, HEX_LEN - Len(core) + 1, HEX_LEN) = core

\* C23: for every longitude, positive or negative, the wrapped longitude w
\* satisfies -180 <= w < 180.
C23_WrapLonRange ==
    fn.name = "_wrap_lon_deg"
    => /\ -HALF_TURN_DEG <= fn.r
       /\ fn.r < HALF_TURN_DEG

\* C29: for every radian input, positive or negative, the range reduction
\* first brings x into [0, 2 PI) and then hands the Taylor series an argument
\* in [-PI/2, PI/2].
C29_RangeReduction ==
    fn.name = "_sin_cos_decimal"
    => /\ 0 <= fn.r.mod
       /\ fn.r.mod < TWO_PI
       /\ -HALF_PI <= fn.r.arg
       /\ fn.r.arg <= HALF_PI

\* C24: gps_to_dataspace_coord is a pure function computed entirely in the
\* DECIMAL_PREC-digit round-half-even context: its result is the one that
\* context gives, whatever the caller's context, and its plane bit is 0.
C24_GpsInFixedContext ==
    fn.name = "gps_to_dataspace_coord"
    => /\ fn.r = gps_to_dataspace_coord(fn.ecef_m, DECIMAL_PREC)
       /\ fn.r % 2 = 0

\* C25: every spawn and hop event carries X, Y and Z tags that are the
\* decimal numerals of the per-axis quotients (axis value >> SECTOR_BITS) of
\* the coordinate in its own C tag, and an S tag that is those three numerals
\* joined by "-"; events whose C tags differ in the plane bit only carry the
\* same sector tags.
IsNumeral(text) ==
    /\ Len(text) >= 1
    /\ \A i \in 1..Len(text) : \E d \in 1..10 : text[i] = DigitChars[d]
    /\ Len(text) > 1 => text[1] # "0"

RECURSIVE NumeralValue(_)
NumeralValue(text) ==
    IF text = <<>> THEN 0
    ELSE 10 * NumeralValue(SubSeq(text, 1, Len(text) - 1))
         + (CHOOSE d \in 0..9 : DigitChars[d + 1] = text[Len(text)])

AllEvents == UNION {{chains[l][i] : i \in 1..Len(chains[l])} : l \in Labels}

SectorTagsOf(e) == <<_get_tag(e, "X"), _get_tag(e, "Y"), _get_tag(e, "Z"), _get_tag(e, "S")>>

C25_SectorTags ==
    /\ \A e \in AllEvents :
          LET c == coord_to_xyz(FromHex(_get_tag(e, "C")))
              X == _get_tag(e, "X")
              Y == _get_tag(e, "Y")
              Z == _get_tag(e, "Z")
          IN  /\ _get_tag(e, "A") \in {"spawn", "hop"}
              /\ IsNumeral(X) /\ NumeralValue(X) = c.x \div (2 ^ SECTOR_BITS)
              /\ IsNumeral(Y) /\ NumeralValue(Y) = c.y \div (2 ^ SECTOR_BITS)
              /\ IsNumeral(Z) /\ NumeralValue(Z) = c.z \div (2 ^ SECTOR_BITS)
              /\ _get_tag(e, "S") = X \o <<"-">> \o Y \o <<"-">> \o Z
    /\ \A e1 \in AllEvents, e2 \in AllEvents :
          FromHex(_get_tag(e1, "C")) \div 2 = FromHex(_get_tag(e2, "C")) \div 2
          => SectorTagsOf(e1) = SectorTagsOf(e2)

\* A spawn event and a hop event are on the chains, one event lies in a sector
\* other than 0 on every axis, and two events have C tags that differ in the
\* plane bit only.
C25_Witness ==
    /\ \E e \in AllEvents : _get_tag(e, "A") = "spawn"
    /\ \E e \in AllEvents :
          /\ _get_tag(e, "A") = "hop"
          /\ _get_tag(e, "X") # <<"0">>
    /\ \E e1 \in AllEvents, e2 \in AllEvents :
          /\ _get_tag(e1, "C") # _get_tag(e2, "C")
          /\ FromHex(_get_tag(e1, "C")) \div 2 = FromHex(_get_tag(e2, "C")) \div 2

C27_WritersSerialised ==
    (\A p \in Procs : pc[p] \in {"idle", "done"})
    => \A l \in Labels :
          /\ \A i \in HopIndex(l), j \in HopIndex(l) :
                i # j => ETag(chains[l][i], "previous") # ETag(chains[l][j], "previous")
          /\ \A i \in HopIndex(l) : ETag(chains[l][i], "previous") = chains[l][i - 1].id

\* C28: in a toward walk every hop that changes x, y or z keeps the plane
\* bit; a plane-switch hop is issued only at the target's x, y, z, from the
\* other plane to the target's; and no hop of the walk follows a plane switch.
IsPlaneSwitch(event) == HopFrom(event).plane # HopTo(event).plane

C28_PlaneSwitchLast ==
    [][(cmd.mode = "toward" /\ chains' # chains)
       => LET e == chains'[cmd.label][Len(chains'[cmd.label])]
              a == HopFrom(e)
              b == HopTo(e)
          IN  /\ Len(chains'[cmd.label]) = Len(chains[cmd.label]) + 1
              /\ <<a.x, a.y, a.z>> # <<b.x, b.y, b.z>> => a.plane = b.plane
              /\ a.plane # b.plane
                 => /\ <<a.x, a.y, a.z>> = <<cmd.tx, cmd.ty, cmd.tz>>
                    /\ <<b.x, b.y, b.z>> = <<cmd.tx, cmd.ty, cmd.tz>>
                    /\ b.plane = cmd.tplane
              /\ cmd.hops >= 1 => ~IsPlaneSwitch(LastEvent)]_vars

\* A walk appended a plane switch as its second hop, after a hop that changed
\* x, y or z.
C28_Witness ==
    /\ cmd.mode = "toward"
    /\ pc = "save"
    /\ cmd.hops >= 1
    /\ IsPlaneSwitch(LastEvent)
    /\ Len(chains[cmd.label]) >= 3
    /\ ~IsPlaneSwitch(chains[cmd.label][Len(chains[cmd.label]) - 1])

\* C30: after any sequence of set_target calls the target labels are
\* pairwise distinct and the active label names a target; a call leaves the
\* active target holding the coordinate just set; without a label it selects
\* a target that already has the coordinate and adds none, and otherwise
\* adds unnamed_N, N one more than the largest unnamed index present.
LargestUnnamed(targets) ==
    LET N == {0} \cup {n \in 1..(Len(targets) + 2) : \E i \in 1..Len(targets) : targets[i].label = Unnamed(n)}
    IN  CHOOSE n \in N : \A k \in N : k <= n

SetTargetOutcome(before, after, c, l) ==
    LET held == {i \in 1..Len(before.targets) : before.targets[i].coord_hex = c}
    IN  /\ \E i \in 1..Len(after.targets) :
              /\ after.targets[i].label = after.active_target_label
              /\ after.targets[i].coord_hex = c
        /\ l # NoLabel => after.active_target_label = l
        /\ (l = NoLabel /\ held # {})
           => /\ after.targets = before.targets
              /\ \E i \in held : after.active_target_label = before.targets[i].label
        /\ (l = NoLabel /\ held = {})
           => after.targets = Append(before.targets, [label |-> Unnamed(LargestUnnamed(before.targets) + 1), coord_hex |-> c])

====
